---- MODULE Spec2Model ----
(***************************************************************************)
(* A model of the local print agent (src/local-print-agent.js) and of the  *)
(* image formatter it loads (src/print-formatter.js): the fingerprint of   *)
(* a content object, the two-tier image cache, the HTML to bitmap          *)
(* conversion, the framing of the bitmap as a printer command and the      *)
(* delivery of a job to a TCP printer.                                     *)
(*                                                                         *)
(* Conventions.  A JavaScript value is a record [t, s]: t is "str", "num", *)
(* "arr" or "obj"; s is the text of an atom, the sequence of the elements  *)
(* of an array, or the sequence of the <<key, value>> pairs of an object   *)
(* in insertion order.  A JSON text is the sequence of its tokens.  The    *)
(* SHA-256 digest is taken to be collision free: a fingerprint is the JSON *)
(* text that is digested.                                                  *)
(***************************************************************************)
EXTENDS Integers, Sequences, FiniteSets, TLC

VARIABLES
  config,       \* formatter.config: sequence of <<key, number>> pairs
  cacheConfig,  \* formatter.cacheConfig: [enabled, maxAge, persistToDisk]
  imageCache,   \* formatter.imageCache: a Map, fingerprint -> artifact
  diskCache,    \* print-cache/<fingerprint>.json: fingerprint -> record
  now,          \* Date.now(), in ticks of twelve hours
  calls,        \* the printContentAsImage activations, one per slot
  jobs,         \* the processJob activations, one per slot
  browsers,     \* the slots whose conversion holds an open browser
  tempFiles,    \* the temp-print-image-<now>.png files that exist
  started,      \* number of processJob / printContentAsImage calls made
  hist,         \* observations kept for the properties (not program state)
  hashIn,       \* inputs of a generateContentHash experiment
  hashOut,      \* its two fingerprints
  peer,         \* what another agent process last read in print-cache
  fnIn,         \* the formatter function applied last, with its argument
  fnOut,        \* what it returned, or that it threw
  agent,        \* the agent's WebSocket, its timers and its polling
  sock,         \* the socket and the promise of one printToTCPPrinter call
  client        \* the PrintClient of the browser page

vars == <<config, cacheConfig, imageCache, diskCache, now, calls, jobs,
          browsers, tempFiles, started, hist, hashIn, hashOut, peer,
                 fnIn, fnOut, agent, sock, client>>

-----------------------------------------------------------------------------
(* JavaScript values and JSON.stringify                                    *)

Str(x) == [t |-> "str", s |-> x]
Arr(x) == [t |-> "arr", s |-> x]
Obj(x) == [t |-> "obj", s |-> x]

\* The keys of the modelled objects in the order of Array.prototype.sort
\* (UTF-16 code units: "_" sorts before the lower-case letters).
KeyOrder == <<"_printMethod", "header", "items", "kotNumber", "note",
              "waiterName">>

KeyRank(k) == CHOOSE i \in 1..Len(KeyOrder) : KeyOrder[i] = k

HasKey(kv, k) == \E i \in 1..Len(kv) : kv[i][1] = k

\* obj[k] = v: an existing key keeps its place, a new key is appended.
SetKey(kv, k, v) ==
  IF HasKey(kv, k)
  THEN [i \in 1..Len(kv) |-> IF kv[i][1] = k THEN <<k, v>> ELSE kv[i]]
  ELSE Append(kv, <<k, v>>)

RECURSIVE SortPairs(_)
\* Object.keys(obj).sort(): the pairs by ascending key.
SortPairs(kv) ==
  IF kv = <<>> THEN <<>>
  ELSE LET m == CHOOSE i \in 1..Len(kv) :
                  \A j \in 1..Len(kv) : KeyRank(kv[i][1]) <= KeyRank(kv[j][1])
           rest == [i \in 1..(Len(kv) - 1) |-> IF i < m THEN kv[i] ELSE kv[i + 1]]
       IN <<kv[m]>> \o SortPairs(rest)

RECURSIVE sortObjectKeys(_)
sortObjectKeys(v) ==
  CASE v.t = "arr" -> Arr([i \in 1..Len(v.s) |-> sortObjectKeys(v.s[i])])
    [] v.t = "obj" ->
         LET sorted == SortPairs(v.s)
         IN Obj([i \in 1..Len(sorted) |->
                   <<sorted[i][1], sortObjectKeys(sorted[i][2])>>])
    [] OTHER -> v

RECURSIVE Stringify(_)
RECURSIVE StringifyList(_, _)
\* JSON.stringify of a value, as its token sequence.
Stringify(v) ==
  CASE v.t = "arr" -> <<"[">> \o StringifyList(v.s, FALSE) \o <<"]">>
    [] v.t = "obj" -> <<"{">> \o StringifyList(v.s, TRUE) \o <<"}">>
    [] OTHER -> <<v.s>>

StringifyList(xs, isObj) ==
  IF xs = <<>> THEN <<>>
  ELSE LET one == IF isObj THEN <<xs[1][1], ":">> \o Stringify(xs[1][2])
                  ELSE Stringify(xs[1])
       IN one \o (IF Len(xs) > 1 THEN <<",">> ELSE <<>>)
              \o StringifyList(Tail(xs), isObj)

RECURSIVE StringifyConfig(_)
\* JSON.stringify of this.config, whose values are numbers.
StringifyConfig(cfg) ==
  IF cfg = <<>> THEN <<>>
  ELSE <<cfg[1][1], ":", ToString(cfg[1][2])>>
         \o (IF Len(cfg) > 1 THEN <<",">> ELSE <<>>)
         \o StringifyConfig(Tail(cfg))

\* JSON.stringify({content, type, config}).
HashInput(content, type, cfg) ==
  <<"{", "content", ":">> \o Stringify(content)
    \o <<",", "type", ":", type, ",", "config", ":", "{">>
    \o StringifyConfig(cfg) \o <<"}", "}">>

\* print-formatter.js: the content is canonicalised before it is digested.
generateContentHash(content, type, cfg) ==
  HashInput(sortObjectKeys(content), type, cfg)

\* The formatter variant with text and image modes: the content is digested
\* as it is.
generateContentHashVariant(content, type, cfg) ==
  HashInput(content, type, cfg)

-----------------------------------------------------------------------------
(* Data of the model                                                       *)

\* Payloads of the modelled jobs.  Content 1 and 2 are kitchen tickets that
\* differ in their items, content 3 is a ticket without an items array.
Contents == <<
  Obj(<< <<"header", Obj(<< <<"kotNumber", Str("7")>> >>)>>,
         <<"items", Arr(<<Str("tea")>>)>> >>),
  Obj(<< <<"header", Obj(<< <<"kotNumber", Str("8")>> >>)>>,
         <<"items", Arr(<<Str("rice")>>)>> >>),
  Obj(<< <<"header", Obj(<< <<"kotNumber", Str("9")>> >>)>> >>) >>

\* What the browser paints for a content: the two bytes that its packed
\* pixel rows repeat.  Content 2 paints the pixels 00011011 01100100.
InkPattern == << <<255, 0>>, <<27, 100>>, <<255, 0>> >>

\* document.body.scrollHeight of the rendered page, in pixel rows.
PageRows == 1

ESC == 27
GS == 29

\* formatRules of local-print-agent.js.
formatRules(p) ==
  LET w == CASE p = "MM_58" -> <<384, 32>>
             [] p = "MM_80" -> <<576, 48>>
             [] p = "MM_76" -> <<512, 42>>
  IN << <<"lineWidth", w[1]>>, <<"charsPerLine", w[2]>>, <<"normalSize", 0>>,
        <<"largeSize", 24>>, <<"mediumSize", 16>>, <<"smallSize", 0>> >>

Profiles == {"MM_58", "MM_80"}

\* this.config after new PrintFormatter().
DefaultConfig ==
  << <<"lineWidth", 384>>, <<"deviceScaleFactor", 1>>, <<"fontSize", 24>> >>

\* Twenty-four hours, the clock ticking every twelve.
MaxAge == 2

DefaultCacheConfig ==
  [enabled |-> TRUE, maxAge |-> MaxAge, persistToDisk |-> TRUE]

GetKey(kv, k) == kv[CHOOSE i \in 1..Len(kv) : kv[i][1] = k][2]

RECURSIVE updateConfig(_, _)
\* {...this.config, ...newConfig}
updateConfig(cfg, new) ==
  IF new = <<>> THEN cfg
  ELSE updateConfig(SetKey(cfg, new[1][1], new[1][2]), Tail(new))

\* { ...this.cacheConfig, ...cacheConfig }: the given keys replace.
updateCacheConfig(cc, new) ==
  [k \in DOMAIN cc |-> IF k \in DOMAIN new THEN new[k] ELSE cc[k]]

-----------------------------------------------------------------------------
(* Buffers, base64 and the durable record                                  *)

B64Pad == 64

RECURSIVE B64Encode(_)
\* Buffer.toString("base64"): sextets 0..63, and 64 for "=".
B64Encode(b) ==
  CASE Len(b) = 0 -> <<>>
    [] Len(b) = 1 -> <<b[1] \div 4, (b[1] % 4) * 16, B64Pad, B64Pad>>
    [] Len(b) = 2 -> <<b[1] \div 4, (b[1] % 4) * 16 + b[2] \div 16,
                       (b[2] % 16) * 4, B64Pad>>
    [] OTHER -> <<b[1] \div 4, (b[1] % 4) * 16 + b[2] \div 16,
                  (b[2] % 16) * 4 + b[3] \div 64, b[3] % 64>>
                  \o B64Encode(SubSeq(b, 4, Len(b)))

RECURSIVE B64Decode(_)
\* Buffer.from(text, "base64"): decoding stops at the padding, and an
\* incomplete last group gives the bytes that it holds in full.
B64Decode(c) ==
  LET n == IF \E i \in 1..Len(c) : c[i] = B64Pad
           THEN (CHOOSE i \in 1..Len(c) :
                   c[i] = B64Pad /\ \A j \in 1..(i - 1) : c[j] # B64Pad) - 1
           ELSE Len(c)
  IN CASE n <= 1 -> <<>>
       [] n = 2 -> <<c[1] * 4 + c[2] \div 16>>
       [] n = 3 -> <<c[1] * 4 + c[2] \div 16, (c[2] % 16) * 16 + c[3] \div 4>>
       [] OTHER -> <<c[1] * 4 + c[2] \div 16, (c[2] % 16) * 16 + c[3] \div 4,
                     (c[3] % 4) * 64 + c[4]>>
                     \o B64Decode(SubSeq(c, 5, n))

\* The value of a variable that holds no image (undefined or null).
NoImage ==
  [nul |-> TRUE, imageData |-> <<>>, width |-> 0, height |-> 0,
   monochromeData |-> <<>>]

\* The record that saveCacheToDisk serialises.  fields are the keys that the
\* JSON text holds; a text that JSON.parse rejects has parses = FALSE.
cacheEntry(t, img) ==
  [parses |-> TRUE,
   fields |-> {"timestamp", "imageData", "width", "height", "monochromeData"},
   timestamp |-> t,
   imageData |-> B64Encode(img.imageData),
   width |-> img.width,
   height |-> img.height,
   monochromeData |-> B64Encode(img.monochromeData)]

Unparsable ==
  [parses |-> FALSE, fields |-> {}, timestamp |-> 0, imageData |-> <<>>,
   width |-> 0, height |-> 0, monochromeData |-> <<>>]

MapSet(m, k, v) == [x \in (DOMAIN m) \cup {k} |-> IF x = k THEN v ELSE m[x]]

MapDel(m, k) == [x \in (DOMAIN m) \ {k} |-> m[x]]

EmptyMap == [x \in {} |-> NoImage]

\* A plausible slip: an expired record is reported as a miss but its file
\* is left where it is.
loadCacheFromDiskKeep(disk, hash, t, maxAge) ==
  IF hash \notin DOMAIN disk THEN <<NoImage, disk>>
  ELSE LET r == disk[hash] IN
    IF ~r.parses \/ ("timestamp" \in r.fields /\ t - r.timestamp > maxAge)
       \/ ~({"imageData", "monochromeData"} \subseteq r.fields)
    THEN <<NoImage, disk>>
    ELSE <<[nul |-> FALSE,
            imageData |-> B64Decode(r.imageData),
            width |-> IF "width" \in r.fields THEN r.width ELSE 0,
            height |-> IF "height" \in r.fields THEN r.height ELSE 0,
            monochromeData |-> B64Decode(r.monochromeData)], disk>>

\* loadCacheFromDisk: <<the image or NoImage, the files afterwards>>.
\* A missing timestamp makes the age NaN, which no comparison finds expired;
\* Buffer.from(undefined, "base64") throws, and the catch returns null.
loadCacheFromDisk(disk, hash, t, maxAge) ==
  IF hash \notin DOMAIN disk THEN <<NoImage, disk>>
  ELSE LET r == disk[hash] IN
    IF ~r.parses THEN <<NoImage, disk>>
    ELSE IF "timestamp" \in r.fields /\ t - r.timestamp > maxAge
    THEN <<NoImage, MapDel(disk, hash)>>
    ELSE IF ~({"imageData", "monochromeData"} \subseteq r.fields)
    THEN <<NoImage, disk>>
    ELSE <<[nul |-> FALSE,
            imageData |-> B64Decode(r.imageData),
            width |-> IF "width" \in r.fields THEN r.width ELSE 0,
            height |-> IF "height" \in r.fields THEN r.height ELSE 0,
            monochromeData |-> B64Decode(r.monochromeData)], disk>>

\* A plausible slip: the record is written without the bitmap.
saveCacheToDiskNoBitmap(disk, hash, img, t, writeOk) ==
  IF writeOk
  THEN MapSet(disk, hash, cacheEntry(t, [img EXCEPT !.monochromeData = <<>>]))
  ELSE disk

\* saveCacheToDisk: the files afterwards; a failed write is logged only.
saveCacheToDisk(disk, hash, img, t, writeOk) ==
  IF writeOk THEN MapSet(disk, hash, cacheEntry(t, img)) ELSE disk

\* clearCache: <<the Map, the files>> afterwards.
clearCache(cc, disk) ==
  <<EmptyMap, IF cc.persistToDisk THEN [x \in {} |-> Unparsable] ELSE disk>>

-----------------------------------------------------------------------------
(* The bitmap and its framing                                              *)

widthBytesOf(width) == (width + 7) \div 8

\* convertHTMLToImageNode, from the screenshot on: the page is as wide as
\* the wider of the markup's body and the viewport, and its packed rows
\* repeat the content's ink pattern.
Rasterize(ci, htmlWidth, vpWidth, scale) ==
  LET w == (IF htmlWidth > vpWidth THEN htmlWidth ELSE vpWidth) * scale
      h == PageRows * scale
  IN [nul |-> FALSE,
      imageData |-> <<137, 80, 78, 71>>,
      width |-> w,
      height |-> h,
      monochromeData |->
        [i \in 1..(widthBytesOf(w) * h) |-> InkPattern[ci][((i - 1) % 2) + 1]]]

\* A plausible slip: the header is returned without the bitmap.
formatImageForPrinterHeaderOnly(img) ==
  IF img.nul \/ img.width = 0 \/ img.height = 0
  THEN [threw |-> TRUE, cmd |-> <<>>]
  ELSE [threw |-> FALSE,
        cmd |-> <<GS, 118, 48, 0, widthBytesOf(img.width) % 256,
                  (widthBytesOf(img.width) \div 256) % 256,
                  img.height % 256, (img.height \div 256) % 256>>]

\* formatImageForPrinter: GS v 0 m xL xH yL yH d1..dk, or an error.
formatImageForPrinter(img) ==
  IF img.nul \/ img.width = 0 \/ img.height = 0
  THEN [threw |-> TRUE, cmd |-> <<>>]
  ELSE [threw |-> FALSE,
        cmd |-> <<GS, 118, 48, 0, widthBytesOf(img.width) % 256,
                  (widthBytesOf(img.width) \div 256) % 256,
                  img.height % 256, (img.height \div 256) % 256>>
                  \o img.monochromeData]

\* formatToHTML throws when the markup cannot be built: no header or no
\* items to iterate, or a type that is neither kot nor bill.
formatToHTMLThrows(content, type) ==
  \/ type \notin {"kot", "bill"}
  \/ ~HasKey(content.s, "header")
  \/ ~HasKey(content.s, "items")

-----------------------------------------------------------------------------
(* printContentAsImage, one step per stretch between two awaits            *)

Slots == {1, 2}

\* Direct calls of printContentAsImage made in one run of the model.
MaxCalls == 2

\* Jobs handed to processJob in one run of the model.
MaxJobs == 3

\* Last value of the clock.
MaxTime == 3

\* tempImagePath = null
NoFile == 0 - 1

IdleCall ==
  [pc |-> "idle", ci |-> 1, type |-> "kot", hash |-> <<>>, useCache |-> FALSE,
   img |-> NoImage, src |-> "none", htmlWidth |-> 0, vpWidth |-> 0,
   ok |-> FALSE, tmp |-> NoFile, cmd |-> <<>>,
   \* observations
   readDisk |-> FALSE, hitAge |-> 0, loadedAge |-> NoFile, wrote |-> FALSE,
   promotedBefore |-> FALSE,
   hadPrev |-> FALSE, prevCmd |-> <<>>, solo |-> FALSE]

NoHist == [memCreated |-> [x \in {} |-> 0],
           lastCmd |-> [x \in {} |-> <<>>],
           promoted |-> {}]

InFlight(c) == c.pc \notin {"idle", "returned", "threw"}

\* content._printMethod = "html-image"
MarkedContent(ci) ==
  Obj(SetKey(Contents[ci].s, "_printMethod", Str("html-image")))

\* A record with every key that saveCacheToDisk writes.
Complete(r) ==
  r.parses /\ r.fields = {"timestamp", "imageData", "width", "height", "monochromeData"}

\* The call ends: the commands are returned, or the error is thrown again.
\* A returned call that used the cache and ran alone is the earlier call
\* of the next one with its fingerprint.
Finish(c, img, src) ==
  LET f == formatImageForPrinter(img)
  IN [c EXCEPT !.pc = IF f.threw THEN "threw" ELSE "returned",
               !.img = img, !.src = src, !.cmd = f.cmd]

Remember(h, c) ==
  IF c.pc = "returned" /\ c.useCache /\ c.solo
  THEN [h EXCEPT !.lastCmd = MapSet(h.lastCmd, c.hash, c.cmd)]
  ELSE h

\* A plausible slip: the memory tier is not consulted.
memoryLookupNever(cache, hash) == NoImage

\* this.imageCache.get(contentHash)
memoryLookup(cache, hash) ==
  IF hash \in DOMAIN cache THEN cache[hash] ELSE NoImage

\* A plausible slip: an image found on disk is not put into the Map.
promoteNot(cache, hash, img) == cache

\* this.imageCache.set(contentHash, imageResult) after a durable hit
promote(cache, hash, img) == MapSet(cache, hash, img)

\* Lines 109-146 up to the first await, for content ci, with the formatter
\* configuration cfg and the cache configuration cc already updated from
\* the options.
BeginCall(s, ci, type, cfg, cc, skipCache) ==
  LET hash == generateContentHash(MarkedContent(ci), type, cfg)
      useCache == cc.enabled /\ ~skipCache
      found == IF useCache THEN memoryLookup(imageCache, hash) ELSE NoImage
      tryDisk == useCache /\ found.nul /\ cc.persistToDisk
      ld == loadCacheFromDisk(diskCache, hash, now, cc.maxAge)
      others == {t \in Slots \ {s} : InFlight(calls[t]) /\ calls[t].hash = hash}
      c0 == [IdleCall EXCEPT
               !.ci = ci, !.type = type, !.hash = hash, !.useCache = useCache,
               !.promotedBefore = useCache /\ hash \in hist.promoted,
               !.hadPrev = useCache /\ hash \in DOMAIN hist.lastCmd,
               !.prevCmd = IF useCache /\ hash \in DOMAIN hist.lastCmd
                           THEN hist.lastCmd[hash] ELSE <<>>,
               !.solo = (others = {})]
      c1 == IF ~found.nul
            THEN [Finish(c0, found, "memory") EXCEPT
                    !.hitAge = now - hist.memCreated[hash]]
            ELSE IF tryDisk
            THEN [c0 EXCEPT !.pc = "loaded", !.img = ld[1], !.readDisk = TRUE,
                            !.loadedAge = IF hash \in DOMAIN diskCache /\ Complete(diskCache[hash])
                                          THEN now - diskCache[hash].timestamp ELSE NoFile,
                            !.hitAge = IF ld[1].nul \/ "timestamp" \notin diskCache[hash].fields
                                       THEN 0 ELSE now - diskCache[hash].timestamp]
            ELSE IF formatToHTMLThrows(MarkedContent(ci), type)
            THEN [c0 EXCEPT !.pc = "threw"]
            ELSE [c0 EXCEPT !.pc = "launch", !.htmlWidth = GetKey(cfg, "lineWidth")]
  IN /\ calls' = [t \in Slots |->
                    IF t = s THEN c1
                    ELSE IF t \in others THEN [calls[t] EXCEPT !.solo = FALSE]
                    ELSE calls[t]]
     /\ diskCache' = IF tryDisk THEN ld[2] ELSE diskCache
     /\ hist' = Remember(hist, c1)
     /\ UNCHANGED <<imageCache, browsers, tempFiles, agent, sock, client>>

\* Lines 137-153: after the await of loadCacheFromDisk.
AfterLoad(s) ==
  LET c == calls[s] IN
  /\ c.pc = "loaded"
  /\ IF ~c.img.nul
     THEN LET c1 == Finish(c, c.img, "disk") IN
          /\ imageCache' = promote(imageCache, c.hash, c.img)
          /\ calls' = [calls EXCEPT ![s] = c1]
          /\ hist' = LET h == Remember(hist, c1) IN
                     [h EXCEPT !.memCreated = MapSet(h.memCreated, c.hash, now - c.hitAge),
                               !.promoted = h.promoted \cup {c.hash}]
     ELSE /\ calls' = [calls EXCEPT ![s] =
                 IF formatToHTMLThrows(MarkedContent(c.ci), c.type)
                 THEN [c EXCEPT !.pc = "threw"]
                 ELSE [c EXCEPT !.pc = "launch",
                                !.htmlWidth = GetKey(config, "lineWidth")]]
          /\ UNCHANGED <<imageCache, hist, agent, sock, client>>
  /\ UNCHANGED <<config, cacheConfig, diskCache, now, jobs, browsers, tempFiles,
                 started, hashIn, hashOut, peer,
                 fnIn, fnOut, agent, sock, client>>

-----------------------------------------------------------------------------
(* convertHTMLToImageNode                                                  *)

\* puppeteer.launch: the browser, or an error with no browser to close.
Launch(s) ==
  /\ calls[s].pc = "launch"
  /\ \E ok \in BOOLEAN :
       /\ calls' = [calls EXCEPT ![s].pc = IF ok THEN "viewport" ELSE "threw"]
       /\ browsers' = IF ok THEN browsers \cup {s} ELSE browsers
  /\ UNCHANGED <<config, cacheConfig, imageCache, diskCache, now, jobs,
                 tempFiles, started, hist, hashIn, hashOut, peer,
                 fnIn, fnOut, agent, sock, client>>

\* newPage, setContent, and the two setViewport calls: the viewport is as
\* wide as this.config.lineWidth is when the second one is made.
Viewport(s) ==
  /\ calls[s].pc = "viewport"
  /\ \E ok \in BOOLEAN :
       calls' = [calls EXCEPT
                   ![s].pc = IF ok THEN "screenshot" ELSE "close",
                   ![s].vpWidth = IF ok THEN GetKey(config, "lineWidth") ELSE 0,
                   ![s].ok = FALSE]
  /\ UNCHANGED <<config, cacheConfig, imageCache, diskCache, now, jobs,
                 browsers, tempFiles, started, hist, hashIn, hashOut, peer,
                 fnIn, fnOut, agent, sock, client>>

\* page.screenshot, then the temporary file is written.
Screenshot(s) ==
  /\ calls[s].pc = "screenshot"
  /\ \E ok \in BOOLEAN :
       /\ calls' = [calls EXCEPT ![s].pc = IF ok THEN "loadImage" ELSE "close",
                                 ![s].tmp = IF ok THEN now ELSE NoFile]
       /\ tempFiles' = IF ok THEN tempFiles \cup {now} ELSE tempFiles
  /\ UNCHANGED <<config, cacheConfig, imageCache, diskCache, now, jobs,
                 browsers, started, hist, hashIn, hashOut, peer,
                 fnIn, fnOut, agent, sock, client>>

\* loadImage and the conversion to the monochrome bitmap.
LoadImage(s) ==
  LET c == calls[s] IN
  /\ c.pc = "loadImage"
  /\ \E ok \in BOOLEAN :
       calls' = [calls EXCEPT
                   ![s].pc = "close",
                   ![s].ok = ok,
                   ![s].img = IF ok
                              THEN Rasterize(c.ci, c.htmlWidth, c.vpWidth,
                                             GetKey(config, "deviceScaleFactor"))
                              ELSE NoImage]
  /\ UNCHANGED <<config, cacheConfig, imageCache, diskCache, now, jobs,
                 browsers, tempFiles, started, hist, hashIn, hashOut, peer,
                 fnIn, fnOut, agent, sock, client>>

\* The files that the finally block leaves: the unlink is commented out.
removeTempFile(files, name) == files

\* The finally block (browser.close, the temporary file), then lines
\* 158-166 of printContentAsImage up to the await of saveCacheToDisk.
Close(s) ==
  LET c == calls[s] IN
  /\ c.pc = "close"
  /\ browsers' = browsers \ {s}
  /\ tempFiles' = removeTempFile(tempFiles, c.tmp)
  /\ IF ~c.ok
     THEN /\ calls' = [calls EXCEPT ![s].pc = "threw"]
          /\ UNCHANGED <<imageCache, diskCache, hist, agent, sock, client>>
     ELSE IF ~c.useCache
     THEN LET c1 == Finish(c, c.img, "render") IN
          /\ calls' = [calls EXCEPT ![s] = c1]
          /\ hist' = Remember(hist, c1)
          /\ UNCHANGED <<imageCache, diskCache, agent, sock, client>>
     ELSE /\ imageCache' = MapSet(imageCache, c.hash, c.img)
          /\ IF cacheConfig.persistToDisk
             THEN /\ \E writeOk \in BOOLEAN :
                       /\ diskCache' = saveCacheToDisk(diskCache, c.hash, c.img, now, writeOk)
                       /\ calls' = [calls EXCEPT ![s].pc = "saved", ![s].src = "render",
                                                 ![s].wrote = writeOk]
                  /\ hist' = [hist EXCEPT !.memCreated = MapSet(hist.memCreated, c.hash, now)]
             ELSE LET c1 == Finish(c, c.img, "render") IN
                  /\ calls' = [calls EXCEPT ![s] = c1]
                  /\ diskCache' = diskCache
                  /\ hist' = LET h == Remember(hist, c1) IN
                             [h EXCEPT !.memCreated = MapSet(h.memCreated, c.hash, now)]
  /\ UNCHANGED <<config, cacheConfig, now, jobs, started, hashIn, hashOut, peer,
                 fnIn, fnOut, agent, sock, client>>

\* Lines 169-173: after the await of saveCacheToDisk.
Saved(s) ==
  LET c == calls[s]
      c1 == Finish(c, c.img, "render")
  IN /\ c.pc = "saved"
     /\ calls' = [calls EXCEPT ![s] = c1]
     /\ hist' = Remember(hist, c1)
     /\ UNCHANGED <<config, cacheConfig, imageCache, diskCache, now, jobs,
                    browsers, tempFiles, started, hashIn, hashOut, peer,
                 fnIn, fnOut, agent, sock, client>>

\* clearCache
ClearCache ==
  LET r == clearCache(cacheConfig, diskCache) IN
  /\ imageCache' = r[1]
  /\ diskCache' = r[2]
  /\ hist' = NoHist
  /\ calls' = [t \in Slots |-> [calls[t] EXCEPT !.solo = FALSE]]
  /\ UNCHANGED <<config, cacheConfig, now, jobs, browsers, tempFiles, started,
                 hashIn, hashOut, peer,
                 fnIn, fnOut, agent, sock, client>>

\* Time passes.
Tick ==
  /\ now < MaxTime
  /\ now' = now + 1
  /\ UNCHANGED <<config, cacheConfig, imageCache, diskCache, calls, jobs,
                 browsers, tempFiles, started, hist, hashIn, hashOut, peer,
                 fnIn, fnOut, agent, sock, client>>

-----------------------------------------------------------------------------
(* processJob and printToTCPPrinter                                        *)

\* Plain string contents of test prints: "Hi", and "Hi" followed by the
\* feed command ESC d 3.
Texts == << <<72, 105>>, <<72, 105, ESC, 100, 3>> >>

\* JSON.stringify(content, null, 2) of a content of unknown type: control
\* characters are escaped, so the text holds no ESC or GS byte.
GenericText == <<123, 125>>

IsInfix(p, d) ==
  \E i \in 1..(Len(d) - Len(p) + 1) : SubSeq(d, i, i + Len(p) - 1) = p

\* GS V A 16
cutCommand == <<GS, 86, 65, 16>>

hasCutCommand(data) ==
  IsInfix(<<ESC, 100>>, data) \/ IsInfix(<<ESC, 86>>, data) \/ IsInfix(<<GS, 86>>, data)

\* The buffer that printToTCPPrinter hands to client.write.
finalBuffer(data) ==
  IF hasCutCommand(data) THEN data ELSE data \o cutCommand

IdleJob ==
  [pc |-> "idle", hasId |-> FALSE, paperWidth |-> "MM_58", kind |-> "KOT",
   data |-> <<>>, wire |-> <<>>, success |-> FALSE, error |-> "",
   status |-> "none"]

\* A status update that reports every job as printed.
statusOfCompleted(hasId, success) ==
  IF ~hasId THEN "none" ELSE "COMPLETED"

\* updateJobStatus(job.id, success, ...) is called only for a job with an id.
statusOf(hasId, success) ==
  IF ~hasId THEN "none" ELSE IF success THEN "COMPLETED" ELSE "FAILED"

\* The jobs that the intake hands over: test prints of a plain string,
\* kitchen tickets, and a structured content of unknown type.
TicketJobs ==
  [kind : {"KOT"}, hasId : {TRUE}, paperWidth : Profiles, n : {1}]

AllJobs ==
  [kind : {"KOT"}, hasId : BOOLEAN, paperWidth : Profiles, n : 1..Len(Contents)]
    \cup [kind : {"TEXT"}, hasId : BOOLEAN, paperWidth : {"MM_58"}, n : 1..Len(Texts)]
    \cup [kind : {"OTHER"}, hasId : BOOLEAN, paperWidth : {"MM_80"}, n : {1}]

\* processJob up to its first await, for a job whose printer is mapped.
\*   TEXT:  a plain string goes to the printer as it is (lines 450-466);
\*   KOT:   lines 503-525, the formatter is configured and called;
\*   OTHER: a structured content of unknown type is printed as JSON text.
JobStart(s, job) ==
  LET j == [IdleJob EXCEPT !.hasId = job.hasId, !.paperWidth = job.paperWidth,
                           !.kind = job.kind]
  IN
  /\ jobs[s].pc = "idle"
  /\ started < MaxJobs
  /\ started' = started + 1
  /\ CASE job.kind = "TEXT" ->
            /\ jobs' = [jobs EXCEPT ![s] =
                          [j EXCEPT !.pc = "printing", !.data = Texts[job.n]]]
            /\ UNCHANGED <<config, calls, imageCache, diskCache, hist,
                           browsers, tempFiles>>
       [] job.kind = "KOT" ->
            /\ config' = updateConfig(config, formatRules(job.paperWidth))
            /\ jobs' = [jobs EXCEPT ![s] = [j EXCEPT !.pc = "rendering"]]
            /\ BeginCall(s, job.n, "kot", config', cacheConfig, FALSE)
       [] job.kind = "OTHER" ->
            /\ config' = updateConfig(config, formatRules(job.paperWidth))
            /\ jobs' = [jobs EXCEPT ![s] =
                          [j EXCEPT !.pc = "printing", !.data = GenericText]]
            /\ UNCHANGED <<calls, imageCache, diskCache, hist, browsers, tempFiles>>
  /\ UNCHANGED <<cacheConfig, now, hashIn, hashOut, peer,
                 fnIn, fnOut, agent, sock, client>>

\* A plausible slip: the commands of a failed render go to the printer.
afterRenderAlwaysPrint(j, c) ==
  [j EXCEPT !.pc = "printing", !.data = c.cmd]

\* Lines 522-552 and 621-627: the await of printContentAsImage ends.  The
\* commands go on to the printer; an error is caught, reported and returned.
afterRender(j, c) ==
  IF c.pc = "returned"
  THEN [j EXCEPT !.pc = "printing", !.data = c.cmd]
  ELSE [j EXCEPT !.pc = "done", !.success = FALSE, !.error = "Failed to print kot",
                 !.status = statusOf(j.hasId, FALSE)]

JobRendered(s) ==
  /\ jobs[s].pc = "rendering"
  /\ calls[s].pc \in {"returned", "threw"}
  /\ jobs' = [jobs EXCEPT ![s] = afterRender(jobs[s], calls[s])]
  /\ UNCHANGED <<config, cacheConfig, imageCache, diskCache, now, calls,
                 browsers, tempFiles, started, hist, hashIn, hashOut, peer,
                 fnIn, fnOut, agent, sock, client>>

\* printToTCPPrinter and the status update after it.  The socket connects
\* and the write completes, or the write fails, or the socket times out,
\* fails or closes before anything is written.
JobPrint(s) ==
  LET j == jobs[s] IN
  /\ j.pc = "printing"
  /\ \E outcome \in {"written", "writeError", "noConnect"} :
       LET success == (outcome = "written") IN
       jobs' = [jobs EXCEPT ![s] =
                  [j EXCEPT !.pc = "done",
                            !.wire = IF outcome = "noConnect" THEN <<>>
                                     ELSE finalBuffer(j.data),
                            !.success = success,
                            !.error = IF success THEN "" ELSE "Failed to print",
                            !.status = statusOf(j.hasId, success)]]
  /\ UNCHANGED <<config, cacheConfig, imageCache, diskCache, now, calls,
                 browsers, tempFiles, started, hist, hashIn, hashOut, peer,
                 fnIn, fnOut, agent, sock, client>>

\* processJob has returned; the slot takes the next job.
JobReturn(s) ==
  /\ jobs[s].pc = "done"
  /\ jobs' = [jobs EXCEPT ![s] = IdleJob]
  /\ calls' = [calls EXCEPT ![s] = IdleCall]
  /\ UNCHANGED <<config, cacheConfig, imageCache, diskCache, now, browsers,
                 tempFiles, started, hist, hashIn, hashOut, peer,
                 fnIn, fnOut, agent, sock, client>>

-----------------------------------------------------------------------------
(* The agent: jobs arrive over the WebSocket, the HTTP endpoints and the   *)
(* poller, and are processed as they arrive.                               *)

\* The fingerprint of content ci at paper width p, as processJob has the
\* formatter compute it.
FingerprintAt(ci, p) ==
  generateContentHash(MarkedContent(ci), "kot",
                      updateConfig(DefaultConfig, formatRules(p)))

\* A record that an earlier run of the agent left for content 1 at 58 mm.
OldRecord == cacheEntry(0, Rasterize(1, 384, 384, 1))

\* The same record with its width lost.
DamagedRecord == [OldRecord EXCEPT !.fields = @ \ {"width"}, !.width = 0]

\* The print-cache directory when the agent starts: empty, or holding a
\* record of an earlier run, which may be intact, damaged or unparsable.
StartDisks(records) ==
  {[x \in {} |-> Unparsable]}
    \cup {[x \in {FingerprintAt(1, "MM_58")} |-> r] : r \in records}

\* No formatter function has been applied yet.
NoCall == [op |-> "none"]

\* The agent before start(): no WebSocket, no timer, not polling.
IdleAgent ==
  [pc |-> "init", ws |-> "none", reTimers |-> {}, wsReconnectTimeout |-> 0,
   isPolling |-> FALSE, timers |-> {}, pollTimeout |-> 0, inflight |-> 0]

\* No printToTCPPrinter call has been made: no socket, the promise not
\* settled, no event seen.
IdleSock ==
  [pc |-> "idle", data |-> <<>>, wire |-> <<>>, write |-> "none",
   resolved |-> FALSE, resolutions |-> <<>>, events |-> <<>>]

\* The PrintClient after its constructor: no socket, no timer.
IdleClient ==
  [ws |-> "none", connected |-> FALSE, reconnectTimer |-> FALSE,
   oldConnecting |-> 0, oldOpen |-> 0, opened |-> 0, disconnected |-> FALSE]

\* The other agent process has read nothing yet.
NoPeer == [read |-> FALSE, sawPartial |-> FALSE, img |-> NoImage]

InitWith(disks) ==
  /\ config = DefaultConfig
  /\ cacheConfig = DefaultCacheConfig
  /\ imageCache = EmptyMap
  /\ diskCache \in disks
  /\ now = 0
  /\ calls = [s \in Slots |-> IdleCall]
  /\ jobs = [s \in Slots |-> IdleJob]
  /\ browsers = {}
  /\ tempFiles = {}
  /\ started = 0
  /\ hist = NoHist
  /\ hashIn = <<>>
  /\ hashOut = <<>>
  /\ peer = NoPeer
  /\ fnIn = NoCall
  /\ fnOut = NoCall
  /\ client = IdleClient
  /\ sock = IdleSock
  /\ agent = IdleAgent

Init == InitWith(StartDisks({DamagedRecord}))

\* One formatter step of the render of slot s.
RenderStep(s) ==
  \/ AfterLoad(s)
  \/ Launch(s)
  \/ Viewport(s)
  \/ Screenshot(s)
  \/ LoadImage(s)
  \/ Close(s)
  \/ Saved(s)

\* The poller hands its jobs over one at a time (it awaits each processJob).
Next ==
  \/ \E job \in AllJobs : JobStart(1, job)
  \/ RenderStep(1)
  \/ JobRendered(1)
  \/ JobPrint(1)
  \/ JobReturn(1)

Spec == Init /\ [][Next]_vars

\* The WebSocket and HTTP handlers call processJob as the messages arrive:
\* two ticket jobs may be in flight at once.
NextConcurrent ==
  \E s \in Slots :
    \/ \E job \in TicketJobs : JobStart(s, job)
    \/ RenderStep(s)
    \/ JobRendered(s)
    \/ JobPrint(s)
    \/ JobReturn(s)

InitConcurrent == InitWith(StartDisks({}))

SpecConcurrent == InitConcurrent /\ [][NextConcurrent]_vars

-----------------------------------------------------------------------------
(* The formatter used directly: printContentAsImage with options,          *)
(* clearCache, and the clock.                                              *)

\* options.cacheConfig: absent, or one key to replace.
CacheOptions ==
  << [x \in {} |-> TRUE], [persistToDisk |-> FALSE], [persistToDisk |-> TRUE],
     [enabled |-> FALSE], [enabled |-> TRUE] >>

\* printContentAsImage(content, "kot", options) up to its first await.
CallStart(s, profile, co, skipCache) ==
  /\ calls[s].pc = "idle"
  /\ started < MaxCalls
  /\ started' = started + 1
  /\ config' = updateConfig(config, formatRules(profile))
  /\ cacheConfig' = updateCacheConfig(cacheConfig, CacheOptions[co])
  /\ BeginCall(s, 1, "kot", config', cacheConfig', skipCache)
  /\ UNCHANGED <<now, jobs, hashIn, hashOut, peer,
                 fnIn, fnOut, agent, sock, client>>

\* The caller has the result.
CallReturn(s) ==
  /\ calls[s].pc \in {"returned", "threw"}
  /\ calls' = [calls EXCEPT ![s] = IdleCall]
  /\ UNCHANGED <<config, cacheConfig, imageCache, diskCache, now, jobs,
                 browsers, tempFiles, started, hist, hashIn, hashOut, peer,
                 fnIn, fnOut, agent, sock, client>>

InitCache == InitWith(StartDisks({OldRecord, DamagedRecord, Unparsable}))

NextCache ==
  \/ \E co \in 1..Len(CacheOptions), skipCache \in BOOLEAN :
       CallStart(1, "MM_58", co, skipCache)
  \/ RenderStep(1)
  \/ CallReturn(1)
  \/ ClearCache
  \/ Tick

SpecCache == InitCache /\ [][NextCache]_vars

\* Two callers ask for the same ticket at the same paper width while the
\* clock runs: the calls may overlap at every await.
NextRace ==
  \/ \E s \in Slots :
       \/ CallStart(s, "MM_58", 1, FALSE)
       \/ RenderStep(s)
       \/ CallReturn(s)
  \/ Tick

SpecRace == InitConcurrent /\ [][NextRace]_vars

-----------------------------------------------------------------------------
(* The cache directory as a second agent process sees it                   *)

\* The call of slot s is about to persist its image.
Persists(s) ==
  calls[s].pc = "close" /\ calls[s].ok /\ calls[s].useCache
    /\ cacheConfig.persistToDisk

\* The finally block and the Map update as in Close, then writeFileSync as
\* far as its open: the record file exists and is empty.
CloseOpened(s) ==
  LET c == calls[s] IN
  /\ Persists(s)
  /\ browsers' = browsers \ {s}
  /\ tempFiles' = removeTempFile(tempFiles, c.tmp)
  /\ imageCache' = MapSet(imageCache, c.hash, c.img)
  /\ diskCache' = MapSet(diskCache, c.hash, Unparsable)
  /\ calls' = [calls EXCEPT ![s].pc = "writing"]
  /\ UNCHANGED <<config, cacheConfig, now, jobs, started, hist, hashIn,
                 hashOut, peer,
                 fnIn, fnOut, agent, sock, client>>

\* The rest of writeFileSync: the text of the record is written, or the
\* write fails and the file stays as the open left it.
WriteRest(s) ==
  LET c == calls[s] IN
  /\ c.pc = "writing"
  /\ \E writeOk \in BOOLEAN :
       /\ diskCache' = IF writeOk THEN saveCacheToDisk(diskCache, c.hash, c.img, now, TRUE)
                       ELSE diskCache
       /\ calls' = [calls EXCEPT ![s].pc = "saved", ![s].src = "render",
                                 ![s].wrote = writeOk]
  /\ hist' = [hist EXCEPT !.memCreated = MapSet(hist.memCreated, c.hash, now)]
  /\ UNCHANGED <<config, cacheConfig, imageCache, now, jobs, browsers,
                 tempFiles, started, hashIn, hashOut, peer,
                 fnIn, fnOut, agent, sock, client>>

\* loadCacheFromDisk in another agent process started in the same working
\* directory, for the MM_58 ticket.
PeerLoad ==
  LET h == FingerprintAt(1, "MM_58")
      ld == loadCacheFromDisk(diskCache, h, now, MaxAge)
  IN /\ peer' = [read |-> TRUE,
                 sawPartial |-> h \in DOMAIN diskCache /\ ~diskCache[h].parses,
                 img |-> ld[1]]
     /\ diskCache' = ld[2]
     /\ UNCHANGED <<config, cacheConfig, imageCache, now, calls, jobs, browsers,
                    tempFiles, started, hist, hashIn, hashOut, fnIn, fnOut,
                    agent, sock, client>>

NextFiles ==
  \/ \E skipCache \in BOOLEAN : CallStart(1, "MM_58", 1, skipCache)
  \/ AfterLoad(1) \/ Launch(1) \/ Viewport(1) \/ Screenshot(1) \/ LoadImage(1)
  \/ (~Persists(1) /\ Close(1))
  \/ CloseOpened(1)
  \/ WriteRest(1)
  \/ Saved(1)
  \/ CallReturn(1)
  \/ PeerLoad
  \/ Tick

SpecFiles == InitConcurrent /\ [][NextFiles]_vars

-----------------------------------------------------------------------------
(* A rendering engine that stops answering                                 *)

\* The browser answers no more to newPage, setContent, setViewport,
\* evaluate or screenshot: convertHTMLToImageNode passes no timeout and
\* races the awaited promise against no timer, so the promise stays
\* unsettled and the call stays where it is.
EngineSilent(s) ==
  /\ calls[s].pc \in {"viewport", "screenshot"}
  /\ calls' = [calls EXCEPT ![s].pc = "pending"]
  /\ UNCHANGED <<config, cacheConfig, imageCache, diskCache, now, jobs,
                 browsers, tempFiles, started, hist, hashIn, hashOut, peer,
                 fnIn, fnOut, agent, sock, client>>

\* A continuation of the job of slot s whose awaited promise has settled.
Continue(s) ==
  \/ RenderStep(s)
  \/ JobRendered(s)
  \/ JobPrint(s)
  \/ JobReturn(s)

\* Ticket jobs, one at a time.
NextLive ==
  \/ \E job \in TicketJobs : JobStart(1, job)
  \/ Continue(1)
  \/ EngineSilent(1)

\* The event loop runs every continuation whose promise has settled; jobs
\* need not arrive.
SpecLive == InitConcurrent /\ [][NextLive]_vars /\ WF_vars(Continue(1))

-----------------------------------------------------------------------------
(* generateContentHash on pairs of contents                                *)

\* A ticket, and the same ticket with its keys or its items in other orders.
HashContents == <<
  Obj(<< <<"header", Obj(<< <<"kotNumber", Str("7")>>, <<"waiterName", Str("w")>> >>)>>,
         <<"items", Arr(<<Str("tea"), Str("rice")>>)>> >>),
  Obj(<< <<"items", Arr(<<Str("tea"), Str("rice")>>)>>,
         <<"header", Obj(<< <<"kotNumber", Str("7")>>, <<"waiterName", Str("w")>> >>)>> >>),
  Obj(<< <<"header", Obj(<< <<"waiterName", Str("w")>>, <<"kotNumber", Str("7")>> >>)>>,
         <<"items", Arr(<<Str("tea"), Str("rice")>>)>> >>),
  Obj(<< <<"header", Obj(<< <<"kotNumber", Str("7")>>, <<"waiterName", Str("w")>> >>)>>,
         <<"items", Arr(<<Str("rice"), Str("tea")>>)>> >>),
  Obj(<< <<"items", Arr(<<Str("tea"), Str("rice")>>)>>,
         <<"header", Obj(<< <<"waiterName", Str("w")>>, <<"kotNumber", Str("7")>> >>)>> >>),
  Obj(<< <<"header", Obj(<< <<"kotNumber", Str("7")>> >>)>>,
         <<"items", Arr(<<Str("tea"), Str("rice")>>)>> >>) >>

RECURSIVE SameUpToKeyOrder(_, _)
\* Equal values, the order of the keys of an object disregarded.
SameUpToKeyOrder(a, b) ==
  IF a.t # b.t THEN FALSE
  ELSE CASE a.t = "obj" ->
              /\ Len(a.s) = Len(b.s)
              /\ \A i \in 1..Len(a.s) : \E j \in 1..Len(b.s) :
                   /\ a.s[i][1] = b.s[j][1]
                   /\ SameUpToKeyOrder(a.s[i][2], b.s[j][2])
         [] a.t = "arr" ->
              /\ Len(a.s) = Len(b.s)
              /\ \A i \in 1..Len(a.s) : SameUpToKeyOrder(a.s[i], b.s[i])
         [] OTHER -> a.s = b.s

\* Two contents are fingerprinted under one type and one configuration, by
\* generateContentHash of print-formatter.js and by that of the formatter
\* variant with text and image modes.
HashPair ==
  \E i \in 1..Len(HashContents), j \in 1..Len(HashContents),
     type \in {"kot", "bill"}, p \in Profiles :
    LET cfg == updateConfig(DefaultConfig, formatRules(p)) IN
    /\ hashIn' = <<i, j, type, p>>
    /\ hashOut' = [sorted |-> <<generateContentHash(HashContents[i], type, cfg),
                                generateContentHash(HashContents[j], type, cfg)>>,
                   variant |-> <<generateContentHashVariant(HashContents[i], type, cfg),
                                 generateContentHashVariant(HashContents[j], type, cfg)>>]
    /\ UNCHANGED <<config, cacheConfig, imageCache, diskCache, now, calls, jobs,
                   browsers, tempFiles, started, hist, peer,
                 fnIn, fnOut, agent, sock, client>>

SpecHash == InitConcurrent /\ [][HashPair]_vars

-----------------------------------------------------------------------------
(* The configuration of the formatter variant with text and image modes    *)

\* Largest charsPerLine that a caller passes by hand.
MaxChars == 3

\* cfg.key || d: the default stands in for a missing key and for 0.
OrDefault(cfg, key, d) ==
  IF HasKey(cfg, key) /\ GetKey(cfg, key) # 0 THEN GetKey(cfg, key) ELSE d

\* new PrintFormatter(cfg): the defaults, then ...cfg over them, so that a
\* key that cfg holds keeps the value that cfg gives it.
constructorConfig(cfg) ==
  updateConfig(<< <<"lineWidth", OrDefault(cfg, "lineWidth", 384)>>,
                  <<"deviceScaleFactor", OrDefault(cfg, "deviceScaleFactor", 1)>>,
                  <<"fontSize", OrDefault(cfg, "fontSize", 24)>>,
                  <<"charsPerLine", OrDefault(cfg, "charsPerLine", 32)>>,
                  <<"normalSize", OrDefault(cfg, "normalSize", 0)>>,
                  <<"largeSize", OrDefault(cfg, "largeSize", 24)>>,
                  <<"mediumSize", OrDefault(cfg, "mediumSize", 16)>>,
                  <<"smallSize", OrDefault(cfg, "smallSize", 0)>> >>, cfg)

\* "-".repeat(this.config.charsPerLine)
divider(cfg) == [i \in 1..GetKey(cfg, "charsPerLine") |-> "-"]

Spaces(n) == [i \in 1..n |-> " "]

\* center(text): the text cut to the line, or padded on both sides.
center(cfg, text) ==
  LET cpl == GetKey(cfg, "charsPerLine") IN
  IF Len(text) >= cpl THEN SubSeq(text, 1, cpl)
  ELSE LET padding == (cpl - Len(text)) \div 2
       IN Spaces(padding) \o text \o Spaces(cpl - Len(text) - padding)

\* Titles to center.
Titles == {<<>>, <<"K">>, <<"K", "O">>, <<"K", "O", "T">>}

\* A paper profile given by hand: charsPerLine alone, or with lineWidth.
HandProfiles ==
  {<< <<"charsPerLine", n>> >> : n \in 0..MaxChars}
    \cup {<< <<"lineWidth", w>>, <<"charsPerLine", n>> >> :
            w \in {384, 512, 576}, n \in 0..MaxChars}

InitProfile ==
  /\ InitWith(StartDisks({}))
  /\ fnIn = NoCall

\* new PrintFormatter(cfg).  None of the three functions has a throw
\* statement or calls one that has: they return.
NewFormatter ==
  \E cfg \in HandProfiles \cup {<<>>} :
    /\ config' = constructorConfig(cfg)
    /\ fnIn' = [op |-> "new", arg |-> cfg]
    /\ fnOut' = [op |-> "new", threw |-> FALSE, text |-> <<>>]
    /\ UNCHANGED <<cacheConfig, imageCache, diskCache, now, calls, jobs,
                   browsers, tempFiles, started, hist, hashIn, hashOut, peer,
                   agent, sock, client>>

\* formatter.updateConfig(profile), with a profile of formatRules or one
\* given by hand.
Configure ==
  \E new \in HandProfiles \cup {formatRules(p) : p \in {"MM_58", "MM_76", "MM_80"}} :
    /\ fnIn.op # "none"
    /\ config' = updateConfig(config, new)
    /\ fnIn' = [op |-> "updateConfig", arg |-> new]
    /\ fnOut' = [op |-> "updateConfig", threw |-> FALSE, text |-> <<>>]
    /\ UNCHANGED <<cacheConfig, imageCache, diskCache, now, calls, jobs,
                   browsers, tempFiles, started, hist, hashIn, hashOut, peer,
                   agent, sock, client>>

\* A line of output is laid out: divider().
Divider ==
  /\ fnIn.op # "none"
  /\ fnIn' = [op |-> "divider", arg |-> <<>>]
  /\ fnOut' = [op |-> "divider", threw |-> FALSE, text |-> divider(config)]
  /\ UNCHANGED <<config, cacheConfig, imageCache, diskCache, now, calls, jobs,
                 browsers, tempFiles, started, hist, hashIn, hashOut, peer,
                 agent, sock, client>>

\* A title is laid out: center(text).
Center ==
  \E text \in Titles :
    /\ fnIn.op # "none"
    /\ fnIn' = [op |-> "center", arg |-> text]
    /\ fnOut' = [op |-> "center", threw |-> FALSE, text |-> center(config, text)]
    /\ UNCHANGED <<config, cacheConfig, imageCache, diskCache, now, calls, jobs,
                   browsers, tempFiles, started, hist, hashIn, hashOut, peer,
                   agent, sock, client>>

NextProfile == NewFormatter \/ Configure \/ Divider \/ Center

SpecProfile == InitProfile /\ [][NextProfile]_vars

-----------------------------------------------------------------------------
(* Optional fields of a ticket and of a bill                               *)

\* The value of a property that the content does not hold.
Undefined == [t |-> "undef", s |-> ""]

\* A value that an if, a ?:, an && or an || takes for true.
Truthy(v) == v.t = "str" /\ v.s # ""

\* ${v} in a template literal, and v in a string concatenation.
ToText(v) == IF v.t = "undef" THEN "undefined" ELSE v.s

\* a || b
OrElse(a, b) == IF Truthy(a) THEN a ELSE b

\* formatKOTToHTML, lines 677-700: the text that the markup shows from the
\* "Ordered By" row on.  ${note && `...`} is the block when note is
\* truthy and ${note} itself when it is not.
kotHTMLTail(c) ==
  <<"Ordered By:", ToText(OrElse(c.orderedBy, OrElse(c.waiterName, Str(""))))>>
    \o (IF Truthy(c.note) THEN <<"Instructions: ", ToText(c.note)>>
        ELSE <<ToText(c.note)>>)

\* formatBillToHTML, lines 838-851: the rows under the restaurant name.
billHTMLHead(c) ==
  IF Truthy(c.address) THEN <<ToText(c.address)>> ELSE <<"">>

\* formatKOTContent of the text mode, lines 1255-1276.
kotTextTail(c) ==
  <<"Ordered By:", ToText(OrElse(c.orderedBy, OrElse(c.waiterName, Str(""))))>>
    \o (IF Truthy(c.note) THEN <<"Instructions: ", ToText(c.note)>> ELSE <<>>)

\* A field is missing, empty or filled.
FieldValues == {Undefined, Str(""), Str("x")}

FieldContents ==
  [note : FieldValues, orderedBy : FieldValues, waiterName : FieldValues,
   address : FieldValues]

\* A ticket or a bill is formatted.  None of the three stretches of code
\* reads a property of a missing field, so none throws.
FormatFields ==
  \E c \in FieldContents, op \in {"kotHTML", "billHTML", "kotText"} :
    /\ fnIn' = [op |-> op, arg |-> c]
    /\ fnOut' = [op |-> op, threw |-> FALSE,
                 text |-> CASE op = "kotHTML" -> kotHTMLTail(c)
                            [] op = "billHTML" -> billHTMLHead(c)
                            [] op = "kotText" -> kotTextTail(c)]
    /\ UNCHANGED <<config, cacheConfig, imageCache, diskCache, now, calls, jobs,
                   browsers, tempFiles, started, hist, hashIn, hashOut, peer,
                   agent, sock, client>>

SpecFields == InitProfile /\ [][FormatFields]_vars

-----------------------------------------------------------------------------
(* formatImageForPrinter on artifacts of every shape                       *)

\* Widths and heights of the small artifacts.
MaxWidth == 17
MaxHeight == 4

\* Height of a ticket too long for sixteen bits.
TallHeight == 65536

\* An artifact of the given size whose bitmap has n bytes.
Artifact(w, h, n) ==
  [nul |-> FALSE, imageData |-> <<137, 80, 78, 71>>, width |-> w, height |-> h,
   monochromeData |-> [i \in 1..n |-> IF i % 2 = 1 THEN 255 ELSE 0]]

\* Artifacts as convertHTMLToImageNode makes them, and as loadCacheFromDisk
\* returns them from a record that nothing has validated: the bitmap may be
\* empty or a byte short.
FrameInputs ==
  {NoImage}
    \cup {Artifact(w, h, 0) : w \in 0..MaxWidth, h \in 0..MaxHeight}
    \cup {Artifact(w, h, widthBytesOf(w) * h) :
            w \in 0..MaxWidth, h \in 0..MaxHeight}
    \cup {Artifact(w, h, widthBytesOf(w) * h - 1) : w \in {8, MaxWidth}, h \in 1..MaxHeight}
    \cup {Artifact(8, h, h) : h \in {255, 256, TallHeight}}

Frame ==
  \E img \in FrameInputs :
    LET f == formatImageForPrinter(img) IN
    /\ fnIn' = [op |-> "formatImageForPrinter", arg |-> img]
    /\ fnOut' = [op |-> "formatImageForPrinter", threw |-> f.threw, text |-> f.cmd]
    /\ UNCHANGED <<config, cacheConfig, imageCache, diskCache, now, calls, jobs,
                   browsers, tempFiles, started, hist, hashIn, hashOut, peer,
                   agent, sock, client>>

SpecFrame == InitProfile /\ [][Frame]_vars

-----------------------------------------------------------------------------
(* The monochrome conversion of convertHTMLToImageNode                     *)

\* Largest canvas of the conversion experiments.
MaxCanvasWidth == 9
MaxCanvasHeight == 2

\* Colours of the painted pixels: black, white, two greys at the threshold
\* and a green whose luma is 128 exactly.
Palette == << <<0, 0, 0>>, <<255, 255, 255>>, <<127, 127, 127>>,
              <<128, 128, 128>>, <<8, 200, 72>> >>

\* The colour of pixel (x, y) of the canvas painted with strides a and c.
PixelAt(img, x, y) == Palette[((x * img.a + y + img.c) % Len(Palette)) + 1]

\* imageData.data: four numbers (R, G, B, A) per pixel, row after row.
ImageData(img) ==
  [i \in 1..(4 * img.w * img.h) |->
     LET p == (i - 1) \div 4
         k == (i - 1) % 4
     IN IF k = 3 THEN 255 ELSE PixelAt(img, p % img.w, p \div img.w)[k + 1]]

\* The colours for which 0.299 * r + 0.587 * g + 0.114 * b, computed in
\* double precision from left to right, is 127.99999999999999 while the
\* sum of the exact products is 128.
RoundedBelow == {
    <<8, 200, 72>>, <<12, 190, 113>>, <<19, 201, 38>>, <<23, 191, 79>>,
    <<24, 160, 236>>, <<34, 192, 45>>, <<38, 182, 86>>, <<42, 172, 127>>,
    <<49, 183, 52>>, <<53, 173, 93>>, <<57, 163, 134>>, <<64, 174, 59>>,
    <<72, 154, 141>>, <<75, 175, 25>>, <<79, 165, 66>>, <<87, 145, 148>>,
    <<90, 166, 32>>, <<94, 156, 73>>, <<98, 146, 114>>, <<102, 136, 155>>,
    <<105, 157, 39>>, <<113, 137, 121>>, <<116, 158, 5>>, <<117, 127,
    162>>, <<120, 148, 46>>, <<128, 128, 128>>, <<131, 149, 12>>, <<132,
    118, 169>>, <<135, 139, 53>>, <<143, 119, 135>>, <<146, 140, 19>>,
    <<154, 120, 101>>, <<158, 110, 142>>, <<161, 131, 26>>, <<169, 111,
    108>>, <<176, 122, 33>>, <<177, 91, 190>>, <<184, 102, 115>>, <<195,
    103, 81>>, <<199, 93, 122>>, <<202, 114, 6>>, <<210, 94, 88>>, <<225,
    85, 95>>, <<240, 76, 102>>, <<251, 77, 68>>, <<255, 67, 109>> }

\* gray < 128, with gray the double that the code computes.
grayBelow128(r, g, b) ==
  299 * r + 587 * g + 114 * b < 128000 \/ <<r, g, b>> \in RoundedBelow

\* 1 << bitPos
Pow2(n) == IF n = 0 THEN 1 ELSE IF n = 1 THEN 2 ELSE IF n = 2 THEN 4
           ELSE IF n = 3 THEN 8 ELSE IF n = 4 THEN 16 ELSE IF n = 5 THEN 32
           ELSE IF n = 6 THEN 64 ELSE 128

RECURSIVE packFrom(_, _, _, _, _)
\* The loops of lines 400-420 from pixel number p on: each ink pixel sets
\* its bit in the bitmap mono, which starts as zeros.
packFrom(pixels, width, height, p, mono) ==
  IF p >= width * height THEN mono
  ELSE LET x == p % width
           y == p \div width
           idx == p * 4
           widthBytes == widthBytesOf(width)
           byteIdx == y * widthBytes + x \div 8
           bitPos == 7 - (x % 8)
           ink == grayBelow128(pixels[idx + 1], pixels[idx + 2], pixels[idx + 3])
           set == (mono[byteIdx + 1] \div Pow2(bitPos)) % 2 = 1
       IN packFrom(pixels, width, height, p + 1,
                   IF ink /\ ~set
                   THEN [mono EXCEPT ![byteIdx + 1] = @ + Pow2(bitPos)]
                   ELSE mono)

\* new Uint8Array(widthBytes * height), filled by the loops.
toMonochrome(pixels, width, height) ==
  packFrom(pixels, width, height, 0,
           [i \in 1..(widthBytesOf(width) * height) |-> 0])

Canvases ==
  [w : 1..MaxCanvasWidth, h : 1..MaxCanvasHeight, a : 0..2, c : 0..(Len(Palette) - 1)]

Monochrome ==
  \E img \in Canvases :
    /\ fnIn' = [op |-> "monochrome", arg |-> img]
    /\ fnOut' = [op |-> "monochrome", threw |-> FALSE,
                 text |-> toMonochrome(ImageData(img), img.w, img.h)]
    /\ UNCHANGED <<config, cacheConfig, imageCache, diskCache, now, calls, jobs,
                   browsers, tempFiles, started, hist, hashIn, hashOut, peer,
                   agent, sock, client>>

SpecMono == InitProfile /\ [][Monochrome]_vars

-----------------------------------------------------------------------------
(* Table layout of the text formatter (src/unnamed/part_001).  A string is *)
(* the sequence of its characters.                                         *)

MaxWords == 3
MaxQuantity == 10000

\* "x".repeat(n)
Rep(ch, n) == [i \in 1..n |-> ch]

RECURSIVE split(_)
\* text.split(" ")
split(text) ==
  IF \A i \in 1..Len(text) : text[i] # " " THEN <<text>>
  ELSE LET k == CHOOSE i \in 1..Len(text) :
                  text[i] = " " /\ \A j \in 1..(i - 1) : text[j] # " "
       IN <<SubSeq(text, 1, k - 1)>> \o split(SubSeq(text, k + 1, Len(text)))

RECURSIVE trimEnd(_)
trimEnd(s) ==
  IF Len(s) > 0 /\ s[Len(s)] = " " THEN trimEnd(SubSeq(s, 1, Len(s) - 1)) ELSE s

RECURSIVE trimStart(_)
trimStart(s) ==
  IF Len(s) > 0 /\ s[1] = " " THEN trimStart(Tail(s)) ELSE s

trim(s) == trimEnd(trimStart(s))

RECURSIVE hardSplit(_, _)
\* The loop of lines 298-302: pieces of width characters.  It ends only
\* for a width of 1 or more.
hardSplit(remainingWord, width) ==
  IF Len(remainingWord) = 0 THEN <<>>
  ELSE <<SubSeq(remainingWord, 1, IF width < Len(remainingWord)
                                   THEN width ELSE Len(remainingWord))>>
       \o hardSplit(SubSeq(remainingWord, width + 1, Len(remainingWord)), width)

RECURSIVE wrapFrom(_, _, _, _, _)
\* The loop of lines 285-319 from word number i on (1-based), then the
\* push of lines 322-324.
wrapFrom(words, width, i, lines, currentLine) ==
  IF i > Len(words)
  THEN IF Len(currentLine) > 0 THEN Append(lines, trim(currentLine)) ELSE lines
  ELSE
    LET word == words[i]
        nextWord == IF i < Len(words) THEN words[i + 1] ELSE <<>>
    IN IF Len(currentLine) + Len(word) + 1 > width
       THEN LET pushed == IF Len(currentLine) > 0
                          THEN Append(lines, trim(currentLine)) ELSE lines
            IN IF Len(word) > width
               THEN wrapFrom(words, width, i + 1,
                             pushed \o hardSplit(word, width), currentLine)
               ELSE wrapFrom(words, width, i + 1, pushed, word)
       ELSE LET line == currentLine
                          \o (IF Len(currentLine) = 0 THEN <<>> ELSE <<" ">>)
                          \o word
            IN IF \/ i = Len(words)
                  \/ (Len(nextWord) > 0 /\ Len(line) + Len(nextWord) + 1 > width)
               THEN wrapFrom(words, width, i + 1, Append(lines, trim(line)), <<>>)
               ELSE wrapFrom(words, width, i + 1, lines, line)

wrapColumnText(text, width) ==
  IF Len(text) = 0 THEN << <<>> >>
  ELSE wrapFrom(split(text), width, 1, <<>>, <<>>)

RECURSIVE SumTo(_, _)
\* columns.slice(0, n).reduce((a, b) => a + b, 0)
SumTo(nums, n) == IF n = 0 THEN 0 ELSE SumTo(nums, n - 1) + nums[n]

\* Math.floor((ratio / totalRatio) * totalWidth); the quotient in double
\* precision has the same floor for every totalWidth up to 59.
calculateColumnWidths(totalWidth, columns) ==
  [c \in 1..Len(columns) |->
     (columns[c] * totalWidth) \div SumTo(columns, Len(columns))]

RECURSIVE rowFrom(_, _, _, _, _)
\* The forEach of lines 249-267 from column number colIndex on (1-based),
\* for the row number rowIndex (1-based).
rowFrom(processedColumns, columnWidths, rowIndex, colIndex, row) ==
  IF colIndex > Len(processedColumns) THEN row
  ELSE
    LET col == processedColumns[colIndex]
        cell == IF rowIndex <= Len(col) THEN col[rowIndex] ELSE <<>>
        width == columnWidths[colIndex]
        padding == width - Len(cell)
        columnSpacing == IF colIndex < Len(processedColumns) THEN <<" ", " ">> ELSE <<>>
        previousColumnsWidth == SumTo(columnWidths, colIndex - 1) + (colIndex - 1) * 2
        indent == IF rowIndex > 1 /\ colIndex > 1
                  THEN Spaces(previousColumnsWidth) ELSE <<>>
    IN rowFrom(processedColumns, columnWidths, rowIndex, colIndex + 1,
               row \o indent \o cell
                   \o Spaces(IF padding > 0 THEN padding ELSE 0) \o columnSpacing)

tableRow(cfg, columns, ratios) ==
  LET totalWidth == GetKey(cfg, "charsPerLine")
      columnWidths == calculateColumnWidths(totalWidth, ratios)
      processedColumns ==
        [c \in 1..Len(columns) |-> wrapColumnText(columns[c], columnWidths[c])]
      maxRows == CHOOSE m \in {Len(processedColumns[c]) : c \in 1..Len(columns)} :
                   \A c \in 1..Len(columns) : Len(processedColumns[c]) <= m
  IN [rowIndex \in 1..maxRows |->
        trimEnd(rowFrom(processedColumns, columnWidths, rowIndex, 1, <<>>))]

RECURSIVE toString(_)
\* Number.prototype.toString of a natural number.
toString(n) ==
  LET digit == <<"0", "1", "2", "3", "4", "5", "6", "7", "8", "9">>[(n % 10) + 1]
  IN IF n < 10 THEN <<digit>> ELSE Append(toString(n \div 10), digit)

\* s.padStart(2, " ")
padStart2(s) == IF Len(s) < 2 THEN Spaces(2 - Len(s)) \o s ELSE s

LowerCase ==
  <<"a", "b", "c", "d", "e", "f", "g", "h", "i", "j", "k", "l", "m",
    "n", "o", "p", "q", "r", "s", "t", "u", "v", "w", "x", "y", "z">>

UpperCase ==
  <<"A", "B", "C", "D", "E", "F", "G", "H", "I", "J", "K", "L", "M",
    "N", "O", "P", "Q", "R", "S", "T", "U", "V", "W", "X", "Y", "Z">>

\* A toUpperCase that leaves the letters as they are.
toUpperCaseKeep(s) == s

\* String.prototype.toUpperCase on unaccented letters.
toUpperCase(s) ==
  [i \in 1..Len(s) |->
     IF \E k \in 1..Len(LowerCase) : LowerCase[k] = s[i]
     THEN UpperCase[CHOOSE k \in 1..Len(LowerCase) : LowerCase[k] = s[i]]
     ELSE s[i]]

\* The switch on status.toUpperCase(); the function has the same text in
\* print-formatter.js and in the text formatter.
getStatusIndicator(status) ==
  LET u == toUpperCase(status)
  IN IF u = <<"N", "E", "W">> THEN <<"N">>
     ELSE IF u = <<"M", "O", "D", "I", "F", "I", "E", "D">> THEN <<"M">>
     ELSE IF u \in {<<"C", "A", "N", "C", "E", "L">>,
                    <<"C", "A", "N", "C", "E", "L", "L", "E", "D">>} THEN <<"C">>
     ELSE IF u = <<"R", "E", "P", "E", "A", "T">> THEN <<"R">>
     ELSE <<>>

KOTRatios == <<8, 2, 4>>

\* The rows of one item in formatKOTTable (lines 152-171).
kotItemRows(cfg, item) ==
  LET statusDisplay ==
        IF item.status # <<>> /\ getStatusIndicator(item.status) # <<>>
        THEN <<"[">> \o getStatusIndicator(item.status) \o <<"]">>
        ELSE <<>>
  IN tableRow(cfg, <<item.name, padStart2(toString(item.quantity)), statusDisplay>>,
              KOTRatios)

\* words.join(" ")
RECURSIVE join(_)
join(words) ==
  IF Len(words) = 0 THEN <<>>
  ELSE IF Len(words) = 1 THEN words[1]
  ELSE words[1] \o <<" ">> \o join(Tail(words))

\* Words of item names: short ones, one as wide as the name column of the
\* 58 mm profile, longer ones, and the empty word of a doubled space.
Vocabulary ==
  {<<>>, Rep("a", 1), Rep("b", 4), Rep("c", 18), Rep("d", 19), Rep("e", 30)}

\* "A very long item name exceeding the column"
ExampleName ==
  <<"A", " ", "v", "e", "r", "y", " ", "l", "o", "n", "g", " ", "i", "t", "e",
    "m", " ", "n", "a", "m", "e", " ", "e", "x", "c", "e", "e", "d", "i", "n",
    "g", " ", "t", "h", "e", " ", "c", "o", "l", "u", "m", "n">>

ItemNames ==
  {ExampleName} \cup
  UNION {{join(ws) : ws \in [1..n -> Vocabulary]} : n \in 1..MaxWords}

\* The paper profiles of formatRules.
TableProfiles == {"MM_58", "MM_76", "MM_80"}

KOTItems ==
  [name : ItemNames, quantity : {1, 12, MaxQuantity},
   status : {<<>>, <<"N", "E", "W">>,
             <<"C", "A", "N", "C", "E", "L", "L", "E", "D">>}]

\* formatKOTTable lays out one item at the profile of a paper width; each
\* behaviour lays out a single item.
FormatKOTItem ==
  \E p \in TableProfiles, item \in KOTItems :
    LET cfg == formatRules(p)
    IN /\ fnIn = NoCall
       /\ fnIn' = [op |-> "kotItem", paperWidth |-> p, item |-> item]
       /\ fnOut' = [op |-> "kotItem", rows |-> kotItemRows(cfg, item)]
       /\ UNCHANGED <<config, cacheConfig, imageCache, diskCache, now, calls,
                      jobs, browsers, tempFiles, started, hist, hashIn,
                      hashOut, peer, agent, sock, client>>

SpecTable == InitProfile /\ [][FormatKOTItem]_vars

-----------------------------------------------------------------------------
(* The item rows of the ticket markup (formatKOTToHTML).                   *)

MaxItems == 2

\* Status strings as a producer may spell them: the known codes in upper,
\* lower and mixed case, and strings that are no code.
StatusTexts ==
  {<<"N", "E", "W">>, <<"n", "e", "w">>, <<"N", "e", "w">>,
   <<"M", "O", "D", "I", "F", "I", "E", "D">>,
   <<"m", "o", "d", "i", "f", "i", "e", "d">>,
   <<"C", "A", "N", "C", "E", "L">>, <<"c", "a", "n", "c", "e", "l">>,
   <<"C", "A", "N", "C", "E", "L", "L", "E", "D">>,
   <<"C", "a", "n", "c", "e", "l", "l", "e", "d">>,
   <<"R", "E", "P", "E", "A", "T">>, <<"r", "e", "p", "e", "a", "t">>,
   <<"D", "O", "N", "E">>, <<"N", "E", "W", "S">>, <<"n", "e">>, <<>>}

\* item.status: a string, or missing.
StatusValues ==
  {[missing |-> FALSE, text |-> t] : t \in StatusTexts}
    \cup {[missing |-> TRUE, text |-> <<>>]}

TicketItems == [name : {<<"t", "e", "a">>}, quantity : {2}, status : StatusValues]

\* The <tr> of one item: its two cells.
kotHTMLRow(item) ==
  LET statusIndicator ==
        getStatusIndicator(IF item.status.missing THEN <<>> ELSE item.status.text)
      statusDisplay ==
        IF statusIndicator # <<>> THEN <<"[">> \o statusIndicator \o <<"]">>
        ELSE <<>>
  IN [item |-> toString(IF item.quantity # 0 THEN item.quantity ELSE 0)
                 \o <<" ", "x", " ">> \o item.name,
      status |-> statusDisplay]

\* items.map((item) => ...): one <tr> per item, in order.
kotHTMLRows(items) == [i \in 1..Len(items) |-> kotHTMLRow(items[i])]

\* formatKOTToHTML builds the item table of a ticket; each behaviour
\* formats a single ticket.
FormatKOTRows ==
  \E n \in 0..MaxItems : \E items \in [1..n -> TicketItems] :
    /\ fnIn = NoCall
    /\ fnIn' = [op |-> "kotRows", items |-> items]
    /\ fnOut' = [op |-> "kotRows", rows |-> kotHTMLRows(items)]
    /\ UNCHANGED <<config, cacheConfig, imageCache, diskCache, now, calls,
                   jobs, browsers, tempFiles, started, hist, hashIn,
                   hashOut, peer, agent, sock, client>>

SpecRows == InitProfile /\ [][FormatKOTRows]_vars

-----------------------------------------------------------------------------
(* The agent's WebSocket connection and its polling (local-print-agent.js). *)
(* agent.reTimers and agent.timers are the pending setTimeout calls of     *)
(* connectWebSocket and pollPrintJobs; agent.inflight counts the           *)
(* pollPrintJobs activations that wait for the API or for processJob.      *)

MaxTimers == 3
MaxChains == 2

TimerIds == 1..MaxTimers

\* The handle that setTimeout returns: one that no pending timer has.
FreeId(pending) == CHOOSE t \in TimerIds : t \notin pending

\* pollPrintJobs up to its first await.
pollPrintJobs(a) ==
  IF ~a.isPolling THEN a ELSE [a EXCEPT !.inflight = @ + 1]

startPolling(a) ==
  IF a.isPolling THEN a ELSE pollPrintJobs([a EXCEPT !.isPolling = TRUE])

stopPolling(a) ==
  [a EXCEPT !.isPolling = FALSE, !.timers = @ \ {a.pollTimeout}]

\* clearTimeout(wsReconnectTimeout); ws = new WebSocket(config.wsEndpoint)
connectWebSocket(a) ==
  [a EXCEPT !.ws = "connecting", !.reTimers = @ \ {a.wsReconnectTimeout}]

\* wsReconnectTimeout = setTimeout(connectWebSocket, 5000)
scheduleReconnect(a) ==
  [a EXCEPT !.reTimers = @ \cup {FreeId(a.reTimers)},
            !.wsReconnectTimeout = FreeId(a.reTimers)]

AgentStep(a) ==
  /\ agent' = a
  /\ UNCHANGED <<config, cacheConfig, imageCache, diskCache, now, calls, jobs,
                 browsers, tempFiles, started, hist, hashIn, hashOut, peer,
                 fnIn, fnOut, sock, client>>

\* start(): connectWebSocket(), then startPolling().
AgentStart ==
  /\ agent.pc = "init"
  /\ AgentStep(startPolling(connectWebSocket([agent EXCEPT !.pc = "running"])))

\* ws.on("open")
WsOpen ==
  /\ agent.ws = "connecting"
  /\ AgentStep([agent EXCEPT !.ws = "open"])

\* ws.on("error"): the close event of the socket follows.
WsError ==
  /\ agent.ws \in {"connecting", "open"}
  /\ agent.reTimers # TimerIds
  /\ AgentStep(scheduleReconnect([agent EXCEPT !.ws = "failed"]))

\* ws.on("close")
WsClose ==
  /\ agent.ws \in {"connecting", "open", "failed"}
  /\ agent.reTimers # TimerIds
  /\ AgentStep(startPolling(scheduleReconnect([agent EXCEPT !.ws = "closed"])))

\* A reconnect timer fires: connectWebSocket().
ReconnectFire ==
  \E t \in agent.reTimers :
    AgentStep(connectWebSocket([agent EXCEPT !.reTimers = @ \ {t}]))

\* stopPolling()
StopPolling ==
  /\ agent.pc = "running"
  /\ Cardinality(agent.timers) + agent.inflight < MaxChains
  /\ AgentStep(stopPolling(agent))

\* A poll timer fires: pollPrintJobs().
PollFire ==
  \E t \in agent.timers :
    AgentStep(pollPrintJobs([agent EXCEPT !.timers = @ \ {t}]))

\* A pollPrintJobs activation gets past its awaits (the response, or the
\* error caught at line 878) and schedules the next poll.
PollDone ==
  /\ agent.inflight > 0
  /\ agent.timers # TimerIds
  /\ AgentStep([agent EXCEPT !.inflight = @ - 1,
                             !.timers = @ \cup {FreeId(agent.timers)},
                             !.pollTimeout = FreeId(agent.timers)])

NextAgent ==
  \/ AgentStart
  \/ WsOpen
  \/ WsError
  \/ WsClose
  \/ ReconnectFire
  \/ PollFire
  \/ PollDone

\* The agent as start() runs it: nothing in the file calls stopPolling.
SpecAgent == Init /\ [][NextAgent]_vars

\* The agent with stopPolling called at any time.
NextPolling ==
  \/ NextAgent
  \/ StopPolling

SpecPolling == Init /\ [][NextPolling]_vars

-----------------------------------------------------------------------------
(* processJob from its call to the settling of its promise, one path at a  *)
(* time: the job, config.printerMappings and the outcomes of the render    *)
(* and of printToTCPPrinter decide the path.                               *)

MaxPrinters == 3

PrinterIds == {"kitchen", "receipt", "bar"}

\* config.printerMappings: its keys in insertion order, each with a value
\* that getPrinterConfig accepts (ok) or a legacy string without a port.
PrinterMappings ==
  {m \in UNION {[1..n -> [id : PrinterIds, ok : BOOLEAN]] : n \in 0..MaxPrinters} :
     \A i, k \in 1..Len(m) : i # k => m[i].id # m[k].id}

\* config.printerMappings[printerId] is truthy.
IsMapped(m, id) == \E i \in 1..Len(m) : m[i].id = id

\* getPrinterConfig(printerId) returns a configuration (not null).
getPrinterConfig(m, id) ==
  /\ IsMapped(m, id)
  /\ m[CHOOSE i \in 1..Len(m) : m[i].id = id].ok

\* job.content: nothing, a plain text, or a ticket or bill given as the
\* object {type, content} or as the JSON text of that object.
JobContents ==
  {[kind |-> "none", form |-> "none"], [kind |-> "text", form |-> "string"]}
    \cup [kind : {"KOT", "BILL"}, form : {"object", "string"}]

\* The arguments of processJob: undefined, null, or a job object.
JobArgs ==
  {[form |-> f, hasId |-> FALSE, printerId |-> "", content |-> [kind |-> "none", form |-> "none"]] :
     f \in {"undefined", "null"}}
    \cup [form : {"object"}, hasId : BOOLEAN,
          printerId : PrinterIds \cup {"", "counter"}, content : JobContents]

\* What the awaited calls of one processJob do: the render returns or
\* throws, the printer write succeeds or not.
JobOutcomes == [render : {"ok", "throws"}, write : BOOLEAN]

\* Lines 246-267: the printer that takes the job of an unmapped printer,
\* "" when there is none.  job.content is still what the producer sent: a
\* JSON text has no type property.
defaultPrinterId(job, m) ==
  IF job.content.form = "object" /\ job.content.kind = "KOT" /\ IsMapped(m, "kitchen")
  THEN "kitchen"
  ELSE IF job.content.form = "object" /\ job.content.kind = "BILL" /\ IsMapped(m, "receipt")
  THEN "receipt"
  ELSE IF Len(m) > 0 THEN m[1].id
  ELSE ""

\* The status updates of one updateJobStatus call site.
statusUpdates(hasId, success) ==
  IF statusOf(hasId, success) = "none" THEN <<>> ELSE <<statusOf(hasId, success)>>

\* A processJob that returned {success, error}: the printer it settled on,
\* the printer that printToTCPPrinter was called for ("" if it was not
\* called) and whether the write succeeded.
Returned(job, printer, sentTo, written, success, error) ==
  [op |-> "processJob", rejected |-> FALSE, success |-> success, error |-> error,
   updates |-> statusUpdates(job.hasId, success), printer |-> printer,
   sentTo |-> sentTo, written |-> written]

\* A processJob whose promise is rejected.
Rejected ==
  [op |-> "processJob", rejected |-> TRUE, success |-> FALSE, error |-> "",
   updates |-> <<>>, printer |-> "", sentTo |-> "", written |-> FALSE]

processJob(job, m, env) ==
  IF job.form # "object"
  THEN \* line 230 reads job.id and throws; the catch block reads job.id
       \* again at line 622 and throws out of the function.
       Rejected
  ELSE IF job.printerId = ""
  THEN Returned(job, "", "", FALSE, FALSE, "Printer ID is undefined")
  ELSE
    LET printer == IF IsMapped(m, job.printerId) THEN job.printerId
                   ELSE defaultPrinterId(job, m)
    IN IF printer = ""
       THEN Returned(job, "", "", FALSE, FALSE, "Printer not found in mappings")
       ELSE IF ~getPrinterConfig(m, printer)
       THEN Returned(job, printer, "", FALSE, FALSE, "Printer not configured")
       ELSE IF job.content.kind = "none"
       THEN Returned(job, printer, "", FALSE, FALSE, "Print content is undefined")
       ELSE IF job.content.kind = "text"
       THEN Returned(job, printer, printer, env.write, env.write,
                     IF env.write THEN "" ELSE "Failed to print")
       ELSE IF env.render = "throws"
       THEN Returned(job, printer, "", FALSE, FALSE,
                     IF job.content.kind = "KOT" THEN "Failed to print kot"
                     ELSE "Failed to print bill")
       ELSE Returned(job, printer, printer, env.write, env.write,
                     IF env.write THEN "" ELSE "Failed to print")

\* One call of processJob; each behaviour follows a single call.
ProcessJob ==
  \E job \in JobArgs, m \in PrinterMappings, env \in JobOutcomes :
    /\ fnIn = NoCall
    /\ fnIn' = [op |-> "processJob", job |-> job, mappings |-> m, env |-> env]
    /\ fnOut' = processJob(job, m, env)
    /\ UNCHANGED <<config, cacheConfig, imageCache, diskCache, now, calls,
                   jobs, browsers, tempFiles, started, hist, hashIn,
                   hashOut, peer, agent, sock, client>>

SpecJob == InitProfile /\ [][ProcessJob]_vars

-----------------------------------------------------------------------------
(* printToTCPPrinter: the events of its socket, in every order that a      *)
(* socket gives them, and the promise they settle.  sock.resolutions are   *)
(* the values that resolve was called with; sock.events are the events     *)
(* seen so far.                                                            *)

\* A handler that calls resolve whether or not another has done so.
settleAgain(s, value) ==
  [s EXCEPT !.resolved = TRUE, !.resolutions = Append(@, value)]

\* if (!resolved) { resolved = true; resolve(value); }
settle(s, value) ==
  IF s.resolved THEN s
  ELSE [s EXCEPT !.resolved = TRUE, !.resolutions = Append(@, value)]

SockStep(s, event) ==
  /\ sock' = [s EXCEPT !.events = Append(@, event)]
  /\ UNCHANGED <<config, cacheConfig, imageCache, diskCache, now, calls, jobs,
                 browsers, tempFiles, started, hist, hashIn, hashOut, peer,
                 fnIn, fnOut, agent, client>>

\* printToTCPPrinter(ipAddress, port, data): the handlers are set and
\* client.connect(port, ipAddress) is called.
SockCall ==
  /\ sock.pc = "idle"
  /\ \E data \in {Texts[i] : i \in 1..Len(Texts)} \cup {GenericText} :
       SockStep([sock EXCEPT !.pc = "connecting", !.data = data], "call")

\* client.on("connect"): the data is written, or preparing it throws and
\* the catch of line 693 ends the socket and resolves false.
SockConnect ==
  /\ sock.pc = "connecting"
  /\ \/ SockStep([sock EXCEPT !.pc = "connected", !.write = "pending",
                                !.wire = finalBuffer(sock.data)], "connect")
     \/ SockStep(settle([sock EXCEPT !.pc = "ended"], FALSE), "connectThrow")

\* The callback of client.write, with an error or without: client.end().
SockWritten ==
  /\ sock.write = "pending"
  /\ \E err \in BOOLEAN :
       SockStep(settle([sock EXCEPT !.write = IF err THEN "failed" ELSE "done",
                                    !.pc = IF @ = "connected" THEN "ended" ELSE @],
                       ~err),
                IF err THEN "writeError" ELSE "written")

\* client.on("timeout"): client.destroy().
SockTimeout ==
  /\ sock.pc \in {"connecting", "connected", "ended"}
  /\ SockStep(settle([sock EXCEPT !.pc = "destroyed"], FALSE), "timeout")

\* client.on("error"); the socket closes after it.
SockError ==
  /\ sock.pc \in {"connecting", "connected", "ended"}
  /\ SockStep(settle([sock EXCEPT !.pc = "failed"], FALSE), "error")

\* client.on("close")
SockClose ==
  /\ sock.pc \in {"connecting", "connected", "ended", "destroyed", "failed"}
  /\ SockStep(settle([sock EXCEPT !.pc = "closed"], FALSE), "close")

\* An event of the socket.
SockEvent ==
  \/ SockConnect
  \/ SockWritten
  \/ SockTimeout
  \/ SockError
  \/ SockClose

NextSock ==
  \/ SockCall
  \/ SockEvent

\* The socket that has a handler to call calls it: the idle timeout of ten
\* seconds (line 644) is one such event.
SpecSock == Init /\ [][NextSock]_vars /\ WF_vars(SockEvent)

-----------------------------------------------------------------------------
(* PrintClient (src/unnamed/part_003): its WebSocket and reconnect timer.  *)
(* client.ws is the state of the socket that this.ws refers to;            *)
(* client.oldConnecting and client.oldOpen count the sockets that this.ws  *)
(* no longer refers to and whose listeners are still to be called;         *)
(* client.disconnected records that disconnect() was the application's     *)
(* last call.                                                              *)

MaxSockets == 3

\* scheduleReconnect(): a timer is set unless one is pending.
scheduleReconnectClient(c) == [c EXCEPT !.reconnectTimer = TRUE]

\* connect(): nothing when connected; else the timer is cleared and a new
\* WebSocket replaces this.ws, the listeners staying on the one replaced.
connect(c) ==
  IF c.ws # "none" /\ c.connected THEN c
  ELSE [c EXCEPT !.reconnectTimer = FALSE,
                 !.ws = "connecting",
                 !.opened = @ + 1,
                 !.oldConnecting = IF c.ws = "connecting" THEN @ + 1 ELSE @,
                 !.oldOpen = IF c.ws = "open" THEN @ + 1 ELSE @]

\* disconnect(): this.ws.close() starts the closing of the socket, whose
\* close event comes later.
disconnect(c) ==
  [c EXCEPT !.ws = "none",
            !.connected = FALSE,
            !.reconnectTimer = FALSE,
            !.oldConnecting = IF c.ws = "connecting" THEN @ + 1 ELSE @,
            !.oldOpen = IF c.ws = "open" THEN @ + 1 ELSE @]

\* The close listener of lines 108-116.
onClose(c) == scheduleReconnectClient([c EXCEPT !.connected = FALSE])

ClientStep(c) ==
  /\ client' = c
  /\ UNCHANGED <<config, cacheConfig, imageCache, diskCache, now, calls, jobs,
                 browsers, tempFiles, started, hist, hashIn, hashOut, peer,
                 fnIn, fnOut, agent, sock>>

\* The application calls connect().
ClientConnect ==
  /\ client.opened < MaxSockets
  /\ ClientStep([connect(client) EXCEPT !.disconnected = FALSE])

\* The application sends a message: sendMessage connects first when the
\* client is not connected.
ClientSend ==
  /\ client.opened < MaxSockets
  /\ ClientStep([(IF client.connected THEN client ELSE connect(client))
                   EXCEPT !.disconnected = FALSE])

\* The application calls disconnect().
ClientDisconnect ==
  /\ ClientStep([disconnect(client) EXCEPT !.disconnected = TRUE])

\* The open event of the socket of this.ws.
ClientOpen ==
  /\ client.ws = "connecting"
  /\ ClientStep([client EXCEPT !.ws = "open", !.connected = TRUE])

\* The close event of the socket of this.ws: the agent went away, or the
\* connection failed.
ClientClose ==
  /\ client.ws \in {"connecting", "open"}
  /\ ClientStep(onClose([client EXCEPT !.ws = "closed"]))

\* The open event of a socket that this.ws no longer refers to.
OldOpen ==
  /\ client.oldConnecting > 0
  /\ ClientStep([client EXCEPT !.oldConnecting = @ - 1, !.oldOpen = @ + 1,
                               !.connected = TRUE])

\* The close event of a socket that this.ws no longer refers to.
OldClose ==
  \/ /\ client.oldConnecting > 0
     /\ ClientStep(onClose([client EXCEPT !.oldConnecting = @ - 1]))
  \/ /\ client.oldOpen > 0
     /\ ClientStep(onClose([client EXCEPT !.oldOpen = @ - 1]))

\* The reconnect timer fires: reconnect().
ClientReconnect ==
  /\ client.reconnectTimer
  /\ client.opened < MaxSockets
  /\ ClientStep(connect([client EXCEPT !.reconnectTimer = FALSE]))

NextClient ==
  \/ ClientConnect
  \/ ClientSend
  \/ ClientDisconnect
  \/ ClientOpen
  \/ ClientClose
  \/ OldOpen
  \/ OldClose
  \/ ClientReconnect

SpecClient == Init /\ [][NextClient]_vars

-----------------------------------------------------------------------------
(* wrapColumnText on short texts and narrow columns.                       *)

MaxWrapWidth == 3

\* Words of one to four letters, no letter in two of them, and the empty
\* word of a doubled space.
ShortWords ==
  {<<>>, <<"a">>, <<"b", "c">>, <<"d", "e", "f">>, <<"g", "h", "i", "j">>}

WrapTexts == UNION {{join(ws) : ws \in [1..n -> ShortWords]} : n \in 1..MaxWords}

\* wrapColumnText(text, width) for a width of 1 or more; each behaviour
\* wraps a single text.
WrapText ==
  \E text \in WrapTexts, width \in 1..MaxWrapWidth :
    /\ fnIn = NoCall
    /\ fnIn' = [op |-> "wrap", text |-> text, width |-> width]
    /\ fnOut' = [op |-> "wrap", lines |-> wrapColumnText(text, width)]
    /\ UNCHANGED <<config, cacheConfig, imageCache, diskCache, now, calls,
                   jobs, browsers, tempFiles, started, hist, hashIn,
                   hashOut, peer, agent, sock, client>>

SpecWrap == InitProfile /\ [][WrapText]_vars

-----------------------------------------------------------------------------
(* One cell of a table row, a loop turn at a time: tableRow computes the    *)
(* column widths and hands wrapColumnText the cell's text and its width.    *)

MaxLineChars == 6
MaxLines == 10
MaxCellWords == 2

BillRatios == <<6, 5, 2, 10>>

\* Cell texts of one or two words.
CellTexts ==
  UNION {{join(ws) : ws \in [1..n -> ShortWords]} : n \in 1..MaxCellWords}

\* wrapColumnText(col, width) is entered (tableRow, lines 237-243).
\* pc is "for" at the head of the loop of line 285, "while" at the head of
\* the loop of line 299, "returned" after a return.
WrapBegin ==
  \E charsPerLine \in 0..MaxLineChars, ratios \in {KOTRatios, BillRatios},
     text \in CellTexts :
    \E index \in 1..Len(ratios) :
      LET width == calculateColumnWidths(charsPerLine, ratios)[index]
      IN /\ fnIn = NoCall
         /\ fnIn' = [op |-> "layout", charsPerLine |-> charsPerLine,
                     ratios |-> ratios, index |-> index, text |-> text,
                     width |-> width]
         /\ fnOut' = IF Len(text) = 0
                     THEN [op |-> "layout", pc |-> "returned", words |-> <<>>,
                           i |-> 1, lines |-> << <<>> >>,
                           currentLine |-> <<>>, remainingWord |-> <<>>]
                     ELSE [op |-> "layout", pc |-> "for",
                           words |-> split(text), i |-> 1, lines |-> <<>>,
                           currentLine |-> <<>>, remainingWord |-> <<>>]
         /\ UNCHANGED <<config, cacheConfig, imageCache, diskCache, now,
                        calls, jobs, browsers, tempFiles, started, hist,
                        hashIn, hashOut, peer, agent, sock, client>>

\* One turn of the loop of lines 285-319 up to the inner loop, or, past the
\* last word, lines 322-326.
forTurn(r, width) ==
  IF r.i > Len(r.words)
  THEN [r EXCEPT !.pc = "returned",
                 !.lines = IF Len(r.currentLine) > 0
                           THEN Append(r.lines, trim(r.currentLine))
                           ELSE r.lines]
  ELSE
    LET word == r.words[r.i]
        nextWord == IF r.i < Len(r.words) THEN r.words[r.i + 1] ELSE <<>>
    IN IF Len(r.currentLine) + Len(word) + 1 > width
       THEN LET pushed == IF Len(r.currentLine) > 0
                          THEN Append(r.lines, trim(r.currentLine))
                          ELSE r.lines
            IN IF Len(word) > width
               THEN [r EXCEPT !.pc = "while", !.lines = pushed,
                              !.remainingWord = word]
               ELSE [r EXCEPT !.lines = pushed, !.currentLine = word,
                              !.i = r.i + 1]
       ELSE LET line == r.currentLine
                          \o (IF Len(r.currentLine) = 0 THEN <<>> ELSE <<" ">>)
                          \o word
            IN IF \/ r.i = Len(r.words)
                  \/ (Len(nextWord) > 0 /\ Len(line) + Len(nextWord) + 1 > width)
               THEN [r EXCEPT !.lines = Append(r.lines, trim(line)),
                              !.currentLine = <<>>, !.i = r.i + 1]
               ELSE [r EXCEPT !.currentLine = line, !.i = r.i + 1]

\* One test of the condition of line 299 and, if it holds, one turn of
\* lines 300-301; if not, the loop of line 285 goes on with the next word.
whileTurn(r, width) ==
  IF Len(r.remainingWord) > 0
  THEN [r EXCEPT
          !.lines = Append(r.lines,
                      SubSeq(r.remainingWord, 1,
                             IF width < Len(r.remainingWord)
                             THEN width ELSE Len(r.remainingWord))),
          !.remainingWord = SubSeq(r.remainingWord, width + 1,
                                   Len(r.remainingWord))]
  ELSE [r EXCEPT !.pc = "for", !.i = r.i + 1]

LayoutStep(r) ==
  /\ fnIn # NoCall
  /\ fnIn.op = "layout"
  /\ fnOut' = r
  /\ UNCHANGED <<config, cacheConfig, imageCache, diskCache, now, calls,
                 jobs, browsers, tempFiles, started, hist, hashIn, hashOut,
                 peer, fnIn, agent, sock, client>>

WrapWord ==
  /\ fnOut # NoCall
  /\ fnOut.op = "layout"
  /\ fnOut.pc = "for"
  /\ LayoutStep(forTurn(fnOut, fnIn.width))

\* The array of lines is followed up to MaxLines entries.
WrapSplit ==
  /\ fnOut # NoCall
  /\ fnOut.op = "layout"
  /\ fnOut.pc = "while"
  /\ Len(fnOut.lines) < MaxLines
  /\ LayoutStep(whileTurn(fnOut, fnIn.width))

NextLayout == WrapBegin \/ WrapWord \/ WrapSplit

SpecLayout == InitProfile /\ [][NextLayout]_vars

-----------------------------------------------------------------------------
(* Properties                                                              *)

\* Number of GS V commands in a byte stream.
CutCount(d) == Cardinality({i \in 1..(Len(d) - 1) : d[i] = GS /\ d[i + 1] = 86})

EndsWithCut(d) ==
  Len(d) >= Len(cutCommand) /\ SubSeq(d, Len(d) - Len(cutCommand) + 1, Len(d)) = cutCommand

Delivered(j) == j.pc = "done" /\ j.success

\* C1: the byte stream of every delivered job, whatever its render path,
\* holds exactly one paper-cut command, and the stream ends with it.
OneCutAtEnd ==
  \A s \in Slots :
    Delivered(jobs[s]) => CutCount(jobs[s].wire) = 1 /\ EndsWithCut(jobs[s].wire)

\* C2: a call that uses the cache never takes an image that was created
\* more than maxAge ago, from the Map or from the disk: it is a miss.
ExpiredIsAbsent ==
  \A s \in Slots :
    calls[s].src \in {"memory", "disk"} => calls[s].hitAge <= cacheConfig.maxAge

ProfileWidth(p) == GetKey(formatRules(p), "lineWidth")

\* C3: whatever the interleaving of two jobs, the bitmap that a job has
\* rendered is as wide as the paper profile of that job.
RenderAtOwnWidth ==
  \A s \in Slots :
    (jobs[s].pc = "rendering" /\ calls[s].src = "render" /\ ~calls[s].img.nul)
      => calls[s].img.width = ProfileWidth(jobs[s].paperWidth)

\* C4: a call with caching enabled that follows a returned call with the
\* same fingerprint (no clearCache in between) is a cache hit, the
\* rasterizer is not started, and it returns the bytes of the earlier call.
SecondCallHits ==
  \A s \in Slots :
    (calls[s].useCache /\ calls[s].hadPrev) =>
      /\ calls[s].pc \in {"loaded", "returned"}
      /\ calls[s].pc = "loaded" => ~calls[s].img.nul
      /\ calls[s].pc = "returned" =>
           calls[s].src \in {"memory", "disk"} /\ calls[s].cmd = calls[s].prevCmd

SecondCallHitsWitness ==
  \E s \in Slots :
    /\ calls[s].useCache /\ calls[s].hadPrev
    /\ calls[s].pc = "returned" /\ calls[s].src = "memory"
    /\ Len(calls[s].cmd) > 8

\* C5: printContentAsImage never fails on what the cache holds: a call
\* throws only when the markup or the conversion failed, never on an image
\* taken from the Map or read from the disk.
CacheNeverFails ==
  \A s \in Slots :
    calls[s].pc = "threw" => calls[s].src \notin {"memory", "disk"}

Header(img) ==
  <<GS, 118, 48, 0, widthBytesOf(img.width) % 256,
    (widthBytesOf(img.width) \div 256) % 256,
    img.height % 256, (img.height \div 256) % 256>>

\* C6: a call of printContentAsImage that returns gives the header and the
\* whole bitmap; while it runs nothing is written to the printer; when it
\* throws the job ends failed with nothing written.
RenderIsAtomic ==
  \A s \in Slots :
    jobs[s].kind = "KOT" =>
      /\ calls[s].pc = "returned" =>
           calls[s].cmd = Header(calls[s].img) \o calls[s].img.monochromeData
      /\ jobs[s].pc = "rendering" => jobs[s].wire = <<>>
      /\ (calls[s].pc = "threw" /\ jobs[s].pc \in {"printing", "done"}) =>
           /\ jobs[s].pc = "done"
           /\ jobs[s].wire = <<>>
           /\ ~jobs[s].success
           /\ jobs[s].error # ""
           /\ jobs[s].hasId => jobs[s].status = "FAILED"

RenderIsAtomicWitness ==
  \E s \in Slots :
    /\ jobs[s].kind = "KOT" /\ jobs[s].pc = "done" /\ jobs[s].hasId
    /\ calls[s].pc = "threw" /\ calls[s].tmp # NoFile

\* C7: when a conversion has ended, in success or in failure, its browser
\* is closed and the temporary file that it wrote exists no more.
ConversionReleases ==
  \A s \in Slots :
    calls[s].pc \in {"saved", "returned", "threw"} =>
      /\ s \notin browsers
      /\ calls[s].tmp # NoFile => calls[s].tmp \notin tempFiles

\* C8: the fingerprints of one content at two paper widths differ, and the
\* image that a job takes from the cache was rendered at the width of the
\* job's paper profile.
WidthKeyedCache ==
  /\ \A s, t \in Slots :
       (jobs[s].pc = "rendering" /\ jobs[t].pc = "rendering"
          /\ calls[s].ci = calls[t].ci /\ jobs[s].paperWidth # jobs[t].paperWidth)
         => calls[s].hash # calls[t].hash
  /\ \A s \in Slots :
       (jobs[s].pc # "idle" /\ calls[s].pc = "returned"
          /\ calls[s].src \in {"memory", "disk"})
         => calls[s].img.width = ProfileWidth(jobs[s].paperWidth)

\* C9: under one type and one configuration, two contents have the same
\* fingerprint exactly when they are equal up to the order of the keys of
\* their objects; the order of array elements counts.  Stated of both
\* generateContentHash functions of the repository.
KeyOrderIndependent ==
  hashIn # <<>> =>
    LET same == SameUpToKeyOrder(HashContents[hashIn[1]], HashContents[hashIn[2]])
    IN /\ same <=> (hashOut.sorted[1] = hashOut.sorted[2])
       /\ same <=> (hashOut.variant[1] = hashOut.variant[2])

\* C10: the disk is read only by a call that missed the Map; an image that
\* was found on disk is in the Map from then on, and a call that begins
\* after that is served from the Map without reading the disk.
MemoryFirst ==
  /\ \A s \in Slots :
       /\ calls[s].readDisk => calls[s].useCache /\ calls[s].src # "memory"
       /\ calls[s].promotedBefore =>
            calls[s].src = "memory" /\ ~calls[s].readDisk
  /\ \A h \in hist.promoted : h \in DOMAIN imageCache

MemoryFirstWitness ==
  \E s \in Slots :
    /\ calls[s].promotedBefore
    /\ calls[s].pc = "returned" /\ calls[s].src = "memory"

\* C11: a call that reads the disk and finds a complete record older than
\* maxAge gets a miss and the record is deleted by that read; when the
\* record is at most maxAge old the call gets the artifact that the record
\* encodes and the record stays as it was.
ExpiredDeletedOnRead ==
  [][\A s \in Slots :
       (calls[s].pc = "idle" /\ calls'[s].pc = "loaded"
          /\ calls'[s].hash \in DOMAIN diskCache
          /\ Complete(diskCache[calls'[s].hash]))
         => LET h == calls'[s].hash
                r == diskCache[h]
            IN IF now - r.timestamp > cacheConfig'.maxAge
               THEN calls'[s].img.nul /\ h \notin DOMAIN diskCache'
               ELSE /\ ~calls'[s].img.nul
                    /\ cacheEntry(r.timestamp, calls'[s].img) = r
                    /\ h \in DOMAIN diskCache' /\ diskCache'[h] = r]_vars

ExpiredDeletedOnReadWitness ==
  \E s \in Slots :
    /\ calls[s].pc = "loaded" /\ calls[s].loadedAge > cacheConfig.maxAge
    /\ calls[s].img.nul /\ calls[s].hash \notin DOMAIN diskCache

\* C12: when clearCache has returned the Map is empty and the cache
\* directory holds no record, whatever the cache configuration is and
\* whatever was cached before.
ClearWipesBothTiers ==
  [][ClearCache => (DOMAIN imageCache' = {} /\ DOMAIN diskCache' = {})]_vars

\* C13: when two calls with one fingerprint overlap and both miss, neither
\* fails on what the other did, both return the same bytes, and afterwards
\* the Map holds the image under that fingerprint and the disk holds one
\* complete record of it (when a write went through).
FillRaceHarmless ==
  /\ \A s \in Slots : (calls[s].pc = "threw" /\ ~calls[s].solo) => ~calls[s].ok
  /\ \A s, t \in Slots :
       (s # t /\ calls[s].pc = "returned" /\ calls[t].pc = "returned"
          /\ calls[s].src = "render" /\ calls[t].src = "render"
          /\ calls[s].hash = calls[t].hash /\ ~calls[s].solo /\ ~calls[t].solo)
         => LET h == calls[s].hash IN
            /\ calls[s].cmd = calls[t].cmd
            /\ h \in DOMAIN imageCache /\ imageCache[h] = calls[s].img
            /\ (calls[s].wrote \/ calls[t].wrote) => h \in DOMAIN diskCache
            /\ h \in DOMAIN diskCache =>
                 /\ Complete(diskCache[h])
                 /\ \E ts \in 0..now : diskCache[h] = cacheEntry(ts, calls[s].img)

FillRaceHarmlessWitness ==
  /\ calls[1].pc = "returned" /\ calls[2].pc = "returned"
  /\ calls[1].src = "render" /\ calls[2].src = "render"
  /\ calls[1].hash = calls[2].hash /\ ~calls[1].solo /\ ~calls[2].solo
  /\ calls[1].wrote /\ calls[2].wrote

\* C14: a reader of the cache directory, at whatever instant it reads,
\* finds the record file of a fingerprint absent or holding one complete
\* record: it never reads a file that is only partly written.
NoPartialRecord ==
  peer.read => ~peer.sawPartial

ZeroCharsPerLineIsFatal ==
  (fnIn.op # "none" /\ GetKey(config, "charsPerLine") = 0) => fnOut.threw

Shows(text, token) == \E i \in 1..Len(text) : text[i] = token

\* C17: formatting a ticket or a bill that lacks an optional field throws
\* nothing, and the output shows nothing for the field: no label of the
\* field and no text standing for the missing value.
MissingFieldsOmitted ==
  fnIn.op \in {"kotHTML", "billHTML", "kotText"} =>
    LET c == fnIn.arg
        out == fnOut.text
    IN /\ ~fnOut.threw
       /\ (c.note = Undefined \/ c.address = Undefined) => ~Shows(out, "undefined")
       /\ c.note = Undefined => ~Shows(out, "Instructions: ")
       /\ (c.orderedBy = Undefined /\ c.waiterName = Undefined)
            => ~Shows(out, "Ordered By:") /\ ~Shows(out, "undefined")

\* C18: an artifact without width, height or bitmap is rejected; for every
\* other artifact the command holds xL, xH, yL, yH with
\* xL + 256 xH = ceil(width / 8) and yL + 256 yH = height, and after them
\* exactly ceil(width / 8) * height bitmap bytes.
FramingExact ==
  fnIn.op = "formatImageForPrinter" =>
    LET img == fnIn.arg
        cmd == fnOut.text
        wb == widthBytesOf(img.width)
    IN IF img.nul \/ img.width = 0 \/ img.height = 0 \/ img.monochromeData = <<>>
       THEN fnOut.threw
       ELSE /\ ~fnOut.threw
            /\ cmd[5] + 256 * cmd[6] = wb
            /\ cmd[7] + 256 * cmd[8] = img.height
            /\ Len(cmd) = 8 + wb * img.height

\* Bit number pos (0 the least significant) of a byte.
BitOf(byte, pos) == (byte \div Pow2(pos)) % 2

\* The luma 0.299 R + 0.587 G + 0.114 B of a colour is below 128.
LumaBelow128(rgb) == 299 * rgb[1] + 587 * rgb[2] + 114 * rgb[3] < 128000

\* C19: the bitmap of a w by h image has ceil(w/8) * h bytes; bit
\* 7 - (x mod 8) of byte y * ceil(w/8) + floor(x/8) is 1 exactly when the
\* luma of pixel (x, y) is below 128; the bits past column w - 1 are 0.
PackingExact ==
  fnIn.op = "monochrome" =>
    LET img == fnIn.arg
        mono == fnOut.text
        wb == (img.w + 7) \div 8
    IN /\ Len(mono) = wb * img.h
       /\ \A y \in 0..(img.h - 1) : \A x \in 0..(8 * wb - 1) :
            BitOf(mono[y * wb + x \div 8 + 1], 7 - (x % 8)) =
              (IF x < img.w /\ LumaBelow128(PixelAt(img, x, y)) THEN 1 ELSE 0)

\* The characters that item names are made of.
NameLetters == UNION {{n[i] : i \in 1..Len(n)} : n \in ItemNames} \ {" "}

\* The name-column width of a profile: the name's share, 8 of 14, of the
\* characters per line.
NameColumnWidth(p) == (8 * GetKey(formatRules(p), "charsPerLine")) \div 14

\* C20: for every item name and every paper profile, no row of the item
\* carries text of the name beyond the name-column width, and every
\* continuation row (the second row on) carries text of the name only:
\* its quantity and status columns are blank.
NameWrapsInColumn ==
  fnOut.op = "kotItem" =>
    /\ \A k \in 1..Len(fnOut.rows) : \A i \in 1..Len(fnOut.rows[k]) :
         i > NameColumnWidth(fnIn.paperWidth) => fnOut.rows[k][i] \notin NameLetters
    /\ \A k \in 2..Len(fnOut.rows) : \A i \in 1..Len(fnOut.rows[k]) :
         fnOut.rows[k][i] \in NameLetters \cup {" "}

\* The indicator that the specification gives to a status string, spelling
\* by spelling.
IndicatorOfSpelling(t) ==
  IF t \in {<<"N", "E", "W">>, <<"n", "e", "w">>, <<"N", "e", "w">>} THEN <<"[", "N", "]">>
  ELSE IF t \in {<<"M", "O", "D", "I", "F", "I", "E", "D">>,
                 <<"m", "o", "d", "i", "f", "i", "e", "d">>} THEN <<"[", "M", "]">>
  ELSE IF t \in {<<"C", "A", "N", "C", "E", "L">>, <<"c", "a", "n", "c", "e", "l">>,
                 <<"C", "A", "N", "C", "E", "L", "L", "E", "D">>,
                 <<"C", "a", "n", "c", "e", "l", "l", "e", "d">>} THEN <<"[", "C", "]">>
  ELSE IF t \in {<<"R", "E", "P", "E", "A", "T">>, <<"r", "e", "p", "e", "a", "t">>}
       THEN <<"[", "R", "]">>
  ELSE <<>>

\* C21: a ticket of N items gives exactly N item rows, and the status cell
\* of each row shows N, M, C or R for NEW, MODIFIED, CANCEL or CANCELLED,
\* REPEAT in any letter case, and nothing for another or a missing status.
StatusRowsExact ==
  fnOut.op = "kotRows" =>
    /\ Len(fnOut.rows) = Len(fnIn.items)
    /\ \A i \in 1..Len(fnIn.items) :
         fnOut.rows[i].status =
           (IF fnIn.items[i].status.missing THEN <<>>
            ELSE IndicatorOfSpelling(fnIn.items[i].status.text))

StatusRowsExactWitness ==
  /\ fnOut.op = "kotRows"
  /\ Len(fnIn.items) = MaxItems
  /\ fnIn.items[1].status.text = <<"C", "a", "n", "c", "e", "l", "l", "e", "d">>
  /\ fnOut.rows[1].status = <<"[", "C", "]">>
  /\ fnIn.items[MaxItems].status.missing
  /\ fnOut.rows[MaxItems].status = <<>>

\* C22: polling is a fallback: once the WebSocket has closed the agent is
\* polling, and no poll of the API is started while the WebSocket is open.
PollingIsFallback ==
  [][/\ agent'.ws = "closed" => agent'.isPolling
     /\ agent'.inflight > agent.inflight => agent'.ws # "open"]_vars

OneStatusUpdate ==
  (fnOut.op = "processJob" /\ ~fnOut.rejected /\ fnIn.job.hasId) =>
    fnOut.updates = <<IF fnOut.written THEN "COMPLETED" ELSE "FAILED">>

OneStatusUpdateWitness ==
  /\ fnOut.op = "processJob"
  /\ fnIn.job.hasId
  /\ fnIn.job.content.kind = "KOT"
  /\ fnIn.env.render = "ok"
  /\ fnOut.written
  /\ fnOut.updates = <<"COMPLETED">>

\* C25: processJob never rejects: whatever the job, undefined and null
\* included, its promise resolves to {success, error}, and a failure has a
\* non-empty error.
ProcessJobNeverRejects ==
  fnOut.op = "processJob" =>
    /\ ~fnOut.rejected
    /\ ~fnOut.success => fnOut.error # ""

\* The printer that the claim gives to a job whose printer is not mapped.
RedirectTarget(job, m) ==
  IF job.content.kind = "KOT" /\ IsMapped(m, "kitchen") THEN "kitchen"
  ELSE IF job.content.kind = "BILL" /\ IsMapped(m, "receipt") THEN "receipt"
  ELSE m[1].id

\* C26: a job that names an unmapped printer goes to 'kitchen' for KOT
\* content and to 'receipt' for BILL content when that printer is mapped,
\* otherwise to the first mapped printer; it fails with 'Printer not found
\* in mappings' only when no printer is mapped, and then nothing is sent.
UnmappedPrinterRedirected ==
  (/\ fnOut.op = "processJob"
   /\ fnIn.job.form = "object"
   /\ fnIn.job.printerId # ""
   /\ ~IsMapped(fnIn.mappings, fnIn.job.printerId)) =>
    IF Len(fnIn.mappings) = 0
    THEN /\ ~fnOut.success
         /\ fnOut.error = "Printer not found in mappings"
         /\ fnOut.sentTo = ""
    ELSE /\ fnOut.printer = RedirectTarget(fnIn.job, fnIn.mappings)
         /\ fnOut.error # "Printer not found in mappings"
         /\ fnOut.sentTo \in {"", fnOut.printer}

\* The events that settle a call are in the order seen: the first of them.
FirstSettling(events) ==
  LET settling == {i \in 1..Len(events) :
                     events[i] \notin {"call", "connect"}}
  IN events[CHOOSE i \in settling : \A k \in settling : i <= k]

StaysDisconnected ==
  client.disconnected => (~client.reconnectTimer /\ client.ws = "none")

RECURSIVE LettersOf(_)
\* The characters of a text that are not spaces, in order.
LettersOf(text) ==
  IF Len(text) = 0 THEN <<>>
  ELSE (IF Head(text) = " " THEN <<>> ELSE <<Head(text)>>) \o LettersOf(Tail(text))

RECURSIVE LettersOfLines(_)
LettersOfLines(lines) ==
  IF Len(lines) = 0 THEN <<>>
  ELSE LettersOf(Head(lines)) \o LettersOfLines(Tail(lines))

\* C29: for a width of 1 or more, the words and word pieces of the lines
\* that wrapColumnText returns, read in order, are the words of the text:
\* letter for letter, nothing lost and nothing repeated.
WrapPreservesText ==
  fnOut.op = "wrap" => LettersOfLines(fnOut.lines) = LettersOf(fnIn.text)

\* C30: laying out a cell ends after finitely many steps for every
\* charsPerLine from 0 up and every cell text, a column width of 0
\* included: every turn of the loop that cuts a long word into pieces
\* leaves less of the word to cut, and the loop over the words takes one
\* word a turn.
LayoutTerminates ==
  [][/\ (fnOut # NoCall /\ fnOut.op = "layout" /\ fnOut.pc = "while"
           /\ fnOut'.pc = "while")
        => Len(fnOut'.remainingWord) < Len(fnOut.remainingWord)
     /\ (fnOut # NoCall /\ fnOut.op = "layout" /\ fnOut.pc = "for"
           /\ fnOut'.pc = "for")
        => fnOut'.i = fnOut.i + 1]_vars

\* The turn-by-turn cell layout returns what wrapColumnText returns.
LayoutAgrees ==
  (fnOut # NoCall /\ fnOut.op = "layout" /\ fnOut.pc = "returned"
     /\ fnIn.width >= 1)
  => fnOut.lines = wrapColumnText(fnIn.text, fnIn.width)

====
